---------------------------- MODULE Spec2Model ----------------------------
(***************************************************************************)
(* Model of the lernkarten-fridrich card generator: the algorithm catalog  *)
(* (algorithms.py), the request builder, image fetcher, spreadsheet        *)
(* emitter and main of generate_algorithm_cards.py, the page layouts of    *)
(* physical_cards.py and generate_physical_cards.py, and algorithm_to_latex *)
(* and escape_latex of test_integration.py.                                *)
(*                                                                         *)
(* A move sequence (Algorithm, a Python str) is a sequence of one-         *)
(* character strings, so that str.replace and concatenation are computed   *)
(* character by character.  Names, tags, arrows and parameter values are   *)
(* never inspected by the code and stay opaque strings.                    *)
(***************************************************************************)
EXTENDS Integers, Sequences, FiniteSets, TLC

\* Bounds of the model.
MaxCards == 21      \* longest record list handed to the emitters
MaxLen == 5         \* longest bounded string handed to human_to_visualiser, algorithm_to_latex
MaxRecords == 3     \* longest record list of a run of main
MaxWorkers == 2     \* largest value of --max-workers
HostWorkers == 5    \* worker threads of a pool created with max_workers=None

\* Characters of the bounded move-sequence strings.
Chars == {"2", "R", "U", " ", "(", ")"}

Min(a, b) == IF a < b THEN a ELSE b

Range(s) == {s[i] : i \in DOMAIN s}

\* range with the stop value included (a seeded fault).
RECURSIVE range_inclusive(_, _, _)
range_inclusive(start, stop, step) ==
  IF start > stop THEN <<>> ELSE <<start>> \o range_inclusive(start + step, stop, step)

\* Python range(start, stop, step) for step > 0.
RECURSIVE range(_, _, _)
range(start, stop, step) ==
  IF start >= stop THEN <<>> ELSE <<start>> \o range(start + step, stop, step)

\* Python sep.join(parts) on opaque strings.
RECURSIVE join(_, _)
join(sep, parts) ==
  IF parts = <<>> THEN ""
  ELSE IF Len(parts) = 1 THEN parts[1]
  ELSE parts[1] \o sep \o join(sep, Tail(parts))

\* sep.join(parts) with a separator after every part (a seeded fault).
RECURSIVE join_pieces_trailing(_, _)
join_pieces_trailing(sep, parts) ==
  IF parts = <<>> THEN <<>>
  ELSE parts[1] \o <<sep>> \o join_pieces_trailing(sep, Tail(parts))

\* Python sep.join(parts) where every part is a sequence of text pieces: the
\* pieces of the parts in order with one sep between consecutive parts.
RECURSIVE join_pieces(_, _)
join_pieces(sep, parts) ==
  IF parts = <<>> THEN <<>>
  ELSE IF Len(parts) = 1 THEN parts[1]
  ELSE parts[1] \o <<sep>> \o join_pieces(sep, Tail(parts))

\* Python str(n) for n >= 0.
Digits == <<"0", "1", "2", "3", "4", "5", "6", "7", "8", "9">>

RECURSIVE str(_)
str(n) == IF n < 10 THEN Digits[n + 1] ELSE str(n \div 10) \o Digits[(n % 10) + 1]

\* Python s.replace(old, new) for non-empty old: the occurrences are found by
\* one left-to-right scan and do not overlap.
RECURSIVE replace(_, _, _)
replace(s, old, new) ==
  IF Len(s) < Len(old) THEN s
  ELSE IF SubSeq(s, 1, Len(old)) = old
       THEN new \o replace(SubSeq(s, Len(old) + 1, Len(s)), old, new)
       ELSE <<Head(s)>> \o replace(Tail(s), old, new)

---------------------------------------------------------------------------
(* algorithms.py: the record variants.  kind is the dataclass of a record. *)

\* The added tags in place of the old ones (a seeded fault).
extend_anki_tags_replacing(self, tags) == [self EXCEPT !.anki_tags = tags]

\* OLLAlgorithmConfig.extend_anki_tags
extend_anki_tags(self, tags) ==
  [kind |-> "OLL",
   name |-> self.name,
   size |-> self.size,
   _alg |-> self._alg,
   _setup_rotation_before |-> self._setup_rotation_before,
   _setup_rotation_after |-> self._setup_rotation_after,
   anki_tags |-> self.anki_tags \o tags]

\* FrontAlgorithmConfig._y_rotations
_y_rotations(colour) ==
  CASE colour = "RED" -> <<"y">>
    [] colour = "BLUE" -> <<>>
    [] colour = "ORANGE" -> <<"y", "'">>
    [] colour = "GREEN" -> <<"y", "2">>

\* visualiser_algorithm of the four variants.
visualiser_algorithm(self) ==
  CASE self.kind \in {"OLL", "PLL"} ->
         self._setup_rotation_before \o self._alg \o self._setup_rotation_after
    [] self.kind = "Front" ->
         LET y_rot == IF self._front_colour = "BLUE" THEN <<>>
                      ELSE _y_rotations(self._front_colour) \o <<"'">>
             x_rot == <<"x", "'">>
         IN  x_rot \o <<" ">> \o self._alg \o <<" ">> \o y_rot
    [] self.kind = "General" -> self._alg

\* human_algorithm returning the sequence with its setup rotations (a seeded fault).
human_algorithm_with_setup(self) == visualiser_algorithm(self)

\* human_algorithm of the four variants: each returns self._alg.
human_algorithm(self) == self._alg

\* The parameters property (OLL, PLL) or field (Front, General): (key, value) pairs.
parameters(self) ==
  CASE self.kind = "OLL" -> << <<"sch", "ysssss">> >>
    [] self.kind = "PLL" -> <<>>
    [] OTHER -> self.parameters

\* The arrows property (OLL, Front) or field (PLL, General).
arrows(self) == IF self.kind \in {"OLL", "Front"} THEN <<>> ELSE self.arrows

\* The view class attribute (OLL, PLL, Front) or field (General).
view(self) == IF self.kind = "General" THEN self.view ELSE "plan"

---------------------------------------------------------------------------
(* algorithms.py: the catalogs. *)

PLL ==
  << [kind |-> "PLL", name |-> "Aa", size |-> 3, _alg |-> <<"x", " ", "(", "R", "'", " ", "U", " ", "R", "'", ")", " ", "D", "2", " ", "(", "R", " ", "U", "'", " ", "R", "'", ")", "(", "D", "2", " ", "R", "2", ")">>, arrows |-> <<"U0U2-s8", "U2U8-s8", "U8U0-s8">>, _setup_rotation_before |-> <<>>, _setup_rotation_after |-> <<"x", "'">>, anki_tags |-> <<"3x3x3", "PLL">>],
     [kind |-> "PLL", name |-> "Ab", size |-> 3, _alg |-> <<"x", " ", "(", "R", "2", " ", "D", "2", ")", "(", "R", " ", "U", " ", "R", "'", ")", " ", "D", "2", " ", "(", "R", " ", "U", "'", " ", "R", ")">>, arrows |-> <<"U8U2-s8", "U0U8-s8", "U2U0-s8">>, _setup_rotation_before |-> <<>>, _setup_rotation_after |-> <<"x", "'">>, anki_tags |-> <<"3x3x3", "PLL">>],
     [kind |-> "PLL", name |-> "E", size |-> 3, _alg |-> <<"R", "2", " ", "U", " ", "R", "'", " ", "y", " ", "(", "R", " ", "U", "'", " ", "R", "'", " ", "U", ")", " ", "(", "R", " ", "U", "'", " ", "R", "'", " ", "U", ")", " ", "(", "R", " ", "U", "'", " ", "R", "'", " ", "U", ")", " ", "y", "'", " ", "R", " ", "U", "'", " ", "R", "2", " ">>, arrows |-> <<"U0U2", "U2U0", "U6U8", "U8U6">>, _setup_rotation_before |-> <<>>, _setup_rotation_after |-> <<>>, anki_tags |-> <<"3x3x3", "PLL">>],
     [kind |-> "PLL", name |-> "F", size |-> 3, _alg |-> <<"(", "R", "'", " ", "U", "'", " ", "F", "'", ")", "(", "R", " ", "U", " ", "R", "'", " ", "U", "'", ")", "(", "R", "'", " ", "F", ")", "(", "R", "2", " ", "U", "'", ")", "(", "R", "'", " ", "U", "'", " ", "R", " ", "U", ")", " ", "R", "'", " ", "U", " ", "R">>, arrows |-> <<"U1U7", "U7U1", "U2U8", "U8U2">>, _setup_rotation_before |-> <<>>, _setup_rotation_after |-> <<>>, anki_tags |-> <<"3x3x3", "PLL">>],
     [kind |-> "PLL", name |-> "Ga", size |-> 3, _alg |-> <<"(", "R", "2", "'", " ", "u", ")", "(", "R", "'", " ", "U", " ", "R", "'", " ", "U", "'", ")", "(", "R", " ", "u", "'", ")", " ", "R", "2", " ", "y", "'", " ", "(", "R", "'", " ", "U", " ", "R", ")">>, arrows |-> <<"U0U2-s8", "U2U6-s8", "U6U0-s8", "U1U3-s7", "U3U5-s7", "U5U1-s7">>, _setup_rotation_before |-> <<>>, _setup_rotation_after |-> <<"y">>, anki_tags |-> <<"3x3x3", "PLL">>],
     [kind |-> "PLL", name |-> "Gb", size |-> 3, _alg |-> <<"(", "R", "'", " ", "U", "'", " ", "R", ")", " ", "y", " ", "(", "R", "2", " ", "u", ")", "(", "R", "'", " ", "U", " ", "R", " ", "U", "'", ")", "(", "R", " ", "u", "'", ")", " ", "R", "2">>, arrows |-> <<"U0U6-s8", "U6U8-s8", "U8U0-s8", "U1U7-s7", "U7U3-s7", "U3U1-s7">>, _setup_rotation_before |-> <<>>, _setup_rotation_after |-> <<"y", "'">>, anki_tags |-> <<"3x3x3", "PLL">>],
     [kind |-> "PLL", name |-> "Gc", size |-> 3, _alg |-> <<"(", "R", "2", " ", "u", "'", ")", "(", "R", " ", "U", "'", " ", "R", " ", "U", ")", "(", "R", "'", " ", "u", ")", " ", "R", "2", " ", "y", " ", "(", "R", " ", "U", "'", " ", "R", "'", ")">>, arrows |-> <<"U0U6-s8", "U6U8-s8", "U8U0-s8", "U7U3-s7", "U3U5-s7", "U5U7-s7">>, _setup_rotation_before |-> <<>>, _setup_rotation_after |-> <<"y", "'">>, anki_tags |-> <<"3x3x3", "PLL">>],
     [kind |-> "PLL", name |-> "Gd", size |-> 3, _alg |-> <<"(", "R", " ", "U", " ", "R", "'", ")", " ", "y", "'", " ", "(", "R", "2", " ", "u", "'", ")", "(", "R", " ", "U", "'", " ", "R", "'", " ", "U", ")", "(", "R", "'", " ", "u", ")", " ", "R", "2">>, arrows |-> <<"U0U2-s8", "U2U6-s8", "U6U0-s8", "U1U3-s7", "U3U7-s7", "U7U1-s7">>, _setup_rotation_before |-> <<>>, _setup_rotation_after |-> <<"y">>, anki_tags |-> <<"3x3x3", "PLL">>],
     [kind |-> "PLL", name |-> "H", size |-> 3, _alg |-> <<"(", "M", "2", "'", " ", "U", "'", " ", "M", "2", "'", ")", " ", "U", "2", " ", "(", "M", "2", "'", " ", "U", "'", " ", "M", "2", "'", ")">>, arrows |-> <<"U1U7", "U7U1", "U5U3", "U3U5">>, _setup_rotation_before |-> <<>>, _setup_rotation_after |-> <<>>, anki_tags |-> <<"3x3x3", "PLL">>],
     [kind |-> "PLL", name |-> "Ja", size |-> 3, _alg |-> <<"(", "R", "'", " ", "U", " ", "L", "'", " ", "U", "2", ")", " ", "(", "R", " ", "U", "'", " ", "R", "'", " ", "U", "2", " ", "R", ")", " ", "L", " ", "U", "'">>, arrows |-> <<"U0U2", "U2U0", "U1U3", "U3U1">>, _setup_rotation_before |-> <<>>, _setup_rotation_after |-> <<>>, anki_tags |-> <<"3x3x3", "PLL">>],
     [kind |-> "PLL", name |-> "Jb", size |-> 3, _alg |-> <<"(", "R", " ", "U", " ", "R", "'", " ", "F", "'", ")", "(", "R", " ", "U", " ", "R", "'", " ", "U", "'", ")", "(", "R", "'", " ", "F", ")", "(", "R", "2", " ", "U", "'", ")", "(", "R", "'", " ", "U", "'", ")">>, arrows |-> <<"U2U8", "U8U2", "U5U7", "U7U5">>, _setup_rotation_before |-> <<>>, _setup_rotation_after |-> <<>>, anki_tags |-> <<"3x3x3", "PLL">>],
     [kind |-> "PLL", name |-> "Na", size |-> 3, _alg |-> <<"z", " ", "(", "R", "'", " ", "U", " ", "R", "'", ")", " ", "D", " ", "(", "R", "2", " ", "U", "'", " ", "R", ")", " ", "(", "U", " ", "D", "'", ")", " ", "(", "R", "'", " ", "D", " ", "R", "2", " ", "U", "'", " ", "R", " ", "D", "'", ")">>, arrows |-> <<"U0U8", "U8U0", "U1U7", "U7U1">>, _setup_rotation_before |-> <<>>, _setup_rotation_after |-> <<"z", "'">>, anki_tags |-> <<"3x3x3", "PLL">>],
     [kind |-> "PLL", name |-> "Nb", size |-> 3, _alg |-> <<"(", "R", "'", " ", "U", " ", "R", " ", "U", "'", ")", " ", "(", "R", "'", " ", "F", "'", " ", "U", "'", ")", " ", "(", "F", " ", "R", " ", "U", ")", " ", "(", "R", "'", " ", "F", " ", "R", "'", " ", "F", "'", ")", " ", "(", "R", " ", "U", "'", " ", "R", ")">>, arrows |-> <<"U0U8", "U8U0", "U3U5", "U5U3">>, _setup_rotation_before |-> <<>>, _setup_rotation_after |-> <<>>, anki_tags |-> <<"3x3x3", "PLL">>],
     [kind |-> "PLL", name |-> "Ra", size |-> 3, _alg |-> <<"(", "R", " ", "U", "2", "'", ")", "(", "R", "'", " ", "U", "2", ")", "(", "R", " ", "B", "'", ")", "(", "R", "'", " ", "U", "'", " ", "R", " ", "U", ")", "(", "R", " ", "B", " ", "R", "2", " ", "U", ")">>, arrows |-> <<"U1U5", "U5U1", "U6U8", "U8U6">>, _setup_rotation_before |-> <<>>, _setup_rotation_after |-> <<>>, anki_tags |-> <<"3x3x3", "PLL">>],
     [kind |-> "PLL", name |-> "Rb", size |-> 3, _alg |-> <<"(", "R", "'", " ", "U", "2", ")", "(", "R", " ", "U", "2", "'", ")", "(", "R", "'", " ", "F", ")", "(", "R", " ", "U", " ", "R", "'", " ", "U", "'", ")", "(", "R", "'", " ", "F", "'", " ", "R", "2", " ", "U", "'", ")">>, arrows |-> <<"U0U2", "U2U0", "U5U7", "U7U5">>, _setup_rotation_before |-> <<>>, _setup_rotation_after |-> <<>>, anki_tags |-> <<"3x3x3", "PLL">>],
     [kind |-> "PLL", name |-> "T", size |-> 3, _alg |-> <<"(", "R", " ", "U", " ", "R", "'", " ", "U", "'", ")", "(", "R", "'", " ", "F", ")", "(", "R", "2", " ", "U", "'", ")", "(", "R", "'", " ", "U", "'", " ", "R", " ", "U", ")", " ", "R", "'", " ", "F", "'">>, arrows |-> <<"U3U5-s8", "U5U3-s8", "U2U8", "U8U2">>, _setup_rotation_before |-> <<>>, _setup_rotation_after |-> <<>>, anki_tags |-> <<"3x3x3", "PLL">>],
     [kind |-> "PLL", name |-> "Ua", size |-> 3, _alg |-> <<"(", "R", "2", " ", "U", "'", ")", "(", "R", "'", " ", "U", "'", " ", "R", " ", "U", ")", "(", "R", " ", "U", ")", "(", "R", " ", "U", "'", " ", "R", ")">>, arrows |-> <<"U5U1-s7", "U1U3-s7", "U3U5-s7">>, _setup_rotation_before |-> <<>>, _setup_rotation_after |-> <<>>, anki_tags |-> <<"3x3x3", "PLL">>],
     [kind |-> "PLL", name |-> "Ub", size |-> 3, _alg |-> <<"(", "R", "2", "'", " ", "U", ")", "(", "R", " ", "U", " ", "R", "'", " ", "U", "'", ")", "(", "R", "'", " ", "U", "'", ")", "(", "R", "'", " ", "U", " ", "R", "'", ")">>, arrows |-> <<"U3U5-s7", "U5U7-s7", "U7U3-s7">>, _setup_rotation_before |-> <<>>, _setup_rotation_after |-> <<>>, anki_tags |-> <<"3x3x3", "PLL">>],
     [kind |-> "PLL", name |-> "V", size |-> 3, _alg |-> <<"(", "R", "'", " ", "U", " ", "R", "'", " ", "U", "'", ")", " ", "x", "2", " ", "y", "'", " ", "(", "R", "'", " ", "U", " ", "R", "'", " ", "U", "'", ")", " ", "l", " ", "(", "R", " ", "U", "'", " ", "R", "'", " ", "U", ")", " ", "R", " ", "U">>, arrows |-> <<"U1U5", "U5U1", "U0U8", "U8U0">>, _setup_rotation_before |-> <<>>, _setup_rotation_after |-> <<"x", "'", " ", "y", "'">>, anki_tags |-> <<"3x3x3", "PLL">>],
     [kind |-> "PLL", name |-> "Y", size |-> 3, _alg |-> <<"F", " ", "(", "R", " ", "U", "'", ")", "(", "R", "'", " ", "U", "'", " ", "R", " ", "U", ")", "(", "R", "'", " ", "F", "'", ")", "(", "R", " ", "U", " ", "R", "'", " ", "U", "'", ")", "(", "R", "'", " ", "F", " ", "R", " ", "F", "'", ")">>, arrows |-> <<"U1U3", "U3U1", "U0U8", "U8U0">>, _setup_rotation_before |-> <<>>, _setup_rotation_after |-> <<>>, anki_tags |-> <<"3x3x3", "PLL">>],
     [kind |-> "PLL", name |-> "Z", size |-> 3, _alg |-> <<"(", "R", "'", " ", "U", "'", " ", "R", " ", "U", "'", ")", " ", "R", " ", "U", " ", "(", "R", " ", "U", "'", " ", "R", "'", " ", "U", ")", " ", "R", " ", "U", " ", "R", "2", " ", "U", "'", " ", "R", "'", " ", "(", "U", "2", ")">>, arrows |-> <<"U1U5", "U5U1", "U3U7", "U7U3">>, _setup_rotation_before |-> <<>>, _setup_rotation_after |-> <<>>, anki_tags |-> <<"3x3x3", "PLL">>] >>

OLL ==
  << extend_anki_tags([kind |-> "OLL", name |-> "OCLL1 - 21", size |-> 3, _alg |-> <<"(", "R", " ", "U", " ", "R", "'", " ", "U", ")", "(", "R", " ", "U", "'", " ", "R", "'", " ", "U", ")", "(", "R", " ", "U", "2", " ", "R", "'", ")">>, anki_tags |-> <<"3x3x3", "OLL">>, _setup_rotation_before |-> <<>>, _setup_rotation_after |-> <<>>], <<"2-Look-OLL">>),
     extend_anki_tags([kind |-> "OLL", name |-> "OCLL2 - 22", size |-> 3, _alg |-> <<"R", " ", "U", "2", " ", "R", "2", " ", "U", "'", " ", "R", "2", " ", "U", "'", " ", "R", "2", " ", "U", "2", " ", "R">>, anki_tags |-> <<"3x3x3", "OLL">>, _setup_rotation_before |-> <<>>, _setup_rotation_after |-> <<>>], <<"2-Look-OLL">>),
     extend_anki_tags([kind |-> "OLL", name |-> "OCLL3 - 23", size |-> 3, _alg |-> <<"R", "2", " ", "D", " ", "(", "R", "'", " ", "U", "2", " ", "R", ")", " ", "D", "'", " ", "(", "R", "'", " ", "U", "2", " ", "R", "'", ")">>, anki_tags |-> <<"3x3x3", "OLL">>, _setup_rotation_before |-> <<>>, _setup_rotation_after |-> <<>>], <<"2-Look-OLL">>),
     extend_anki_tags([kind |-> "OLL", name |-> "OCLL4 - 24", size |-> 3, _alg |-> <<"(", "r", " ", "U", " ", "R", "'", " ", "U", "'", ")", " ", "(", "r", "'", " ", "F", " ", "R", " ", "F", "'", ")">>, anki_tags |-> <<"3x3x3", "OLL">>, _setup_rotation_before |-> <<>>, _setup_rotation_after |-> <<>>], <<"2-Look-OLL">>),
     extend_anki_tags([kind |-> "OLL", name |-> "OCLL5 - 25", size |-> 3, _alg |-> <<"x", " ", "(", "R", "'", " ", "U", " ", "R", ")", " ", "D", "'", " ", "(", "R", "'", " ", "U", "'", " ", "R", ")", " ", "D", " ", "x", "'">>, anki_tags |-> <<"3x3x3", "OLL">>, _setup_rotation_before |-> <<>>, _setup_rotation_after |-> <<>>], <<"2-Look-OLL">>),
     extend_anki_tags([kind |-> "OLL", name |-> "OCLL6 - 26", size |-> 3, _alg |-> <<"R", "'", " ", "U", "'", " ", "R", " ", "U", "'", " ", "R", "'", " ", "U", "2", " ", "R">>, anki_tags |-> <<"3x3x3", "OLL">>, _setup_rotation_before |-> <<>>, _setup_rotation_after |-> <<>>], <<"2-Look-OLL">>),
     extend_anki_tags([kind |-> "OLL", name |-> "OCLL7 - 27", size |-> 3, _alg |-> <<"R", " ", "U", " ", "R", "'", " ", "U", " ", "R", " ", "U", "2", " ", "R", "'">>, anki_tags |-> <<"3x3x3", "OLL">>, _setup_rotation_before |-> <<>>, _setup_rotation_after |-> <<>>], <<"2-Look-OLL">>),
     [kind |-> "OLL", name |-> "T1 - 33", size |-> 3, _alg |-> <<"(", "R", " ", "U", " ", "R", "'", " ", "U", "'", ")", "(", "R", "'", " ", "F", " ", "R", " ", "F", "'", ")">>, anki_tags |-> <<"3x3x3", "OLL">>, _setup_rotation_before |-> <<>>, _setup_rotation_after |-> <<>>],
     [kind |-> "OLL", name |-> "T2 - 45", size |-> 3, _alg |-> <<"F", " ", "(", "R", " ", "U", " ", "R", "'", " ", "U", "'", ")", " ", "F", "'">>, anki_tags |-> <<"3x3x3", "OLL">>, _setup_rotation_before |-> <<>>, _setup_rotation_after |-> <<>>],
     [kind |-> "OLL", name |-> "S1 - 5", size |-> 3, _alg |-> <<"(", "r", "'", " ", "U", "2", " ", "R", " ", "U", " ", "R", "'", " ", "U", " ", "r", ")">>, anki_tags |-> <<"3x3x3", "OLL">>, _setup_rotation_before |-> <<>>, _setup_rotation_after |-> <<>>],
     [kind |-> "OLL", name |-> "S2 - 6", size |-> 3, _alg |-> <<"(", "r", " ", "U", "2", " ", "R", "'", " ", "U", "'", " ", "R", " ", "U", "'", " ", "r", "'", ")">>, anki_tags |-> <<"3x3x3", "OLL">>, _setup_rotation_before |-> <<>>, _setup_rotation_after |-> <<>>],
     [kind |-> "OLL", name |-> "C1 - 34", size |-> 3, _alg |-> <<"(", "R", " ", "U", " ", "R", "2", "'", " ", "U", "'", ")", " ", "(", "R", "'", " ", "F", " ", "R", " ", "U", ")", " ", "R", " ", "U", "'", " ", "F", "'">>, anki_tags |-> <<"3x3x3", "OLL">>, _setup_rotation_before |-> <<>>, _setup_rotation_after |-> <<>>],
     [kind |-> "OLL", name |-> "C2 - 46", size |-> 3, _alg |-> <<"R", "'", " ", "U", "'", " ", "(", "R", "'", " ", "F", " ", "R", " ", "F", "'", ")", " ", "U", " ", "R">>, anki_tags |-> <<"3x3x3", "OLL">>, _setup_rotation_before |-> <<>>, _setup_rotation_after |-> <<>>],
     [kind |-> "OLL", name |-> "W1 - 36", size |-> 3, _alg |-> <<"(", "R", "'", " ", "U", "'", " ", "R", " ", "U", "'", ")", "(", "R", "'", " ", "U", " ", "R", " ", "U", ")", " ", "(", "l", " ", "U", "'", " ", "R", "'", " ", "U", ")", " ", "x">>, anki_tags |-> <<"3x3x3", "OLL">>, _setup_rotation_before |-> <<>>, _setup_rotation_after |-> <<>>],
     [kind |-> "OLL", name |-> "W2 - 38", size |-> 3, _alg |-> <<"(", "R", " ", "U", " ", "R", "'", " ", "U", ")", "(", "R", " ", "U", "'", " ", "R", "'", " ", "U", "'", ")", "(", "R", "'", " ", "F", " ", "R", " ", "F", "'", ")">>, anki_tags |-> <<"3x3x3", "OLL">>, _setup_rotation_before |-> <<>>, _setup_rotation_after |-> <<>>],
     [kind |-> "OLL", name |-> "E1 - 28", size |-> 3, _alg |-> <<"(", "r", " ", "U", " ", "R", "'", " ", "U", "'", ")", " ", "M", " ", "(", "U", " ", "R", " ", "U", "'", " ", "R", "'", ")">>, anki_tags |-> <<"3x3x3", "OLL">>, _setup_rotation_before |-> <<>>, _setup_rotation_after |-> <<>>],
     [kind |-> "OLL", name |-> "E2 - 57", size |-> 3, _alg |-> <<"(", "R", " ", "U", " ", "R", "'", " ", "U", "'", ")", " ", "M", "'", " ", "(", "U", " ", "R", " ", "U", "'", " ", "r", "'", ")">>, anki_tags |-> <<"3x3x3", "OLL">>, _setup_rotation_before |-> <<>>, _setup_rotation_after |-> <<>>],
     [kind |-> "OLL", name |-> "P1 - 31", size |-> 3, _alg |-> <<"(", "R", "'", " ", "U", "'", " ", "F", ")", "(", "U", " ", "R", " ", "U", "'", " ", "R", "'", ")", " ", "F", "'", " ", "R">>, anki_tags |-> <<"3x3x3", "OLL">>, _setup_rotation_before |-> <<>>, _setup_rotation_after |-> <<>>],
     [kind |-> "OLL", name |-> "P2 - 32", size |-> 3, _alg |-> <<"R", " ", "U", " ", "B", "'", " ", "(", "U", "'", " ", "R", "'", " ", "U", ")", " ", "(", "R", " ", "B", " ", "R", "'", ")">>, anki_tags |-> <<"3x3x3", "OLL">>, _setup_rotation_before |-> <<>>, _setup_rotation_after |-> <<>>],
     [kind |-> "OLL", name |-> "P3 - 43", size |-> 3, _alg |-> <<"F", "'", " ", "U", "'", " ", "L", "'", " ", "U", " ", "L", " ", "F">>, anki_tags |-> <<"3x3x3", "OLL">>, _setup_rotation_before |-> <<>>, _setup_rotation_after |-> <<>>],
     [kind |-> "OLL", name |-> "P4 - 44", size |-> 3, _alg |-> <<"f", " ", "(", "R", " ", "U", " ", "R", "'", " ", "U", "'", ")", " ", "f", "'">>, anki_tags |-> <<"3x3x3", "OLL">>, _setup_rotation_before |-> <<>>, _setup_rotation_after |-> <<>>],
     [kind |-> "OLL", name |-> "I1 - 51", size |-> 3, _alg |-> <<"f", " ", "(", "R", " ", "U", " ", "R", "'", " ", "U", "'", ")", "(", "R", " ", "U", " ", "R", "'", " ", "U", "'", ")", " ", "f", "'">>, anki_tags |-> <<"3x3x3", "OLL">>, _setup_rotation_before |-> <<>>, _setup_rotation_after |-> <<>>],
     [kind |-> "OLL", name |-> "I2 - 52", size |-> 3, _alg |-> <<"(", "R", " ", "U", " ", "R", "'", " ", "U", " ", "R", " ", "U", "'", ")", " ", "y", " ", "(", "R", " ", "U", "'", " ", "R", "'", ")", " ", "F", "'">>, anki_tags |-> <<"3x3x3", "OLL">>, _setup_rotation_before |-> <<>>, _setup_rotation_after |-> <<>>],
     [kind |-> "OLL", name |-> "I3 - 55", size |-> 3, _alg |-> <<"R", " ", "U", "2", " ", "R", "2", " ", "U", "'", " ", "(", "R", " ", "U", "'", " ", "R", "'", " ", "U", "2", ")", " ", "(", "F", " ", "R", " ", "F", "'", ")">>, anki_tags |-> <<"3x3x3", "OLL">>, _setup_rotation_before |-> <<>>, _setup_rotation_after |-> <<>>],
     [kind |-> "OLL", name |-> "I4 - 56", size |-> 3, _alg |-> <<"r", "'", " ", "U", "'", " ", "r", " ", "(", "U", "'", " ", "R", "'", " ", "U", " ", "R", ")", " ", "(", "U", "'", " ", "R", "'", " ", "U", " ", "R", ")", " ", "r", "'", " ", "U", " ", "r">>, anki_tags |-> <<"3x3x3", "OLL">>, _setup_rotation_before |-> <<>>, _setup_rotation_after |-> <<>>],
     [kind |-> "OLL", name |-> "F1 - 9", size |-> 3, _alg |-> <<"(", "R", " ", "U", " ", "R", "'", " ", "U", "'", ")", " ", "R", "'", " ", "F", " ", "(", "R", "2", " ", "U", " ", "R", "'", " ", "U", "'", ")", " ", "F", "'">>, anki_tags |-> <<"3x3x3", "OLL">>, _setup_rotation_before |-> <<>>, _setup_rotation_after |-> <<>>],
     [kind |-> "OLL", name |-> "F2 - 10", size |-> 3, _alg |-> <<"(", "R", " ", "U", " ", "R", "'", " ", "U", ")", " ", "(", "R", "'", " ", "F", " ", "R", " ", "F", "'", ")", " ", "(", "R", " ", "U", "2", "'", " ", "R", "'", ")">>, anki_tags |-> <<"3x3x3", "OLL">>, _setup_rotation_before |-> <<>>, _setup_rotation_after |-> <<>>],
     [kind |-> "OLL", name |-> "F3 - 35", size |-> 3, _alg |-> <<"(", "R", " ", "U", "2", ")", " ", "(", "R", "2", " ", "F", " ", "R", " ", "F", "'", ")", " ", "(", "R", " ", "U", "2", " ", "R", "'", ")">>, anki_tags |-> <<"3x3x3", "OLL">>, _setup_rotation_before |-> <<>>, _setup_rotation_after |-> <<>>],
     [kind |-> "OLL", name |-> "F4 - 37", size |-> 3, _alg |-> <<"F", " ", "(", "R", " ", "U", "'", " ", "R", "'", " ", "U", "'", ")", " ", "(", "R", " ", "U", " ", "R", "'", " ", "F", "'", ")">>, anki_tags |-> <<"3x3x3", "OLL">>, _setup_rotation_before |-> <<>>, _setup_rotation_after |-> <<>>],
     [kind |-> "OLL", name |-> "K1 - 13", size |-> 3, _alg |-> <<"(", "r", " ", "U", "'", " ", "r", "'", ")", " ", "(", "U", "'", " ", "r", " ", "U", " ", "r", "'", ")", " ", "y", "'", " ", "(", "R", "'", " ", "U", " ", "R", ")">>, anki_tags |-> <<"3x3x3", "OLL">>, _setup_rotation_before |-> <<>>, _setup_rotation_after |-> <<>>],
     [kind |-> "OLL", name |-> "K2 - 14", size |-> 3, _alg |-> <<"(", "R", "'", " ", "F", " ", "R", ")", " ", "(", "U", " ", "R", "'", " ", "F", "'", " ", "R", ")", " ", "y", "'", " ", "(", "R", " ", "U", "'", " ", "R", "'", ")">>, anki_tags |-> <<"3x3x3", "OLL">>, _setup_rotation_before |-> <<>>, _setup_rotation_after |-> <<>>],
     [kind |-> "OLL", name |-> "K3 - 15", size |-> 3, _alg |-> <<"(", "r", "'", " ", "U", "'", " ", "r", ")", " ", "(", "R", "'", " ", "U", "'", " ", "R", " ", "U", ")", " ", "(", "r", "'", " ", "U", " ", "r", ")">>, anki_tags |-> <<"3x3x3", "OLL">>, _setup_rotation_before |-> <<>>, _setup_rotation_after |-> <<>>],
     [kind |-> "OLL", name |-> "K4 - 16", size |-> 3, _alg |-> <<"(", "r", " ", "U", " ", "r", "'", ")", " ", "(", "R", " ", "U", " ", "R", "'", " ", "U", "'", ")", " ", "(", "r", " ", "U", "'", " ", "r", "'", ")">>, anki_tags |-> <<"3x3x3", "OLL">>, _setup_rotation_before |-> <<>>, _setup_rotation_after |-> <<>>],
     [kind |-> "OLL", name |-> "A1 - 29", size |-> 3, _alg |-> <<"(", "R", " ", "U", " ", "R", "'", " ", "U", "'", ")", " ", "(", "R", " ", "U", "'", " ", "R", "'", ")", " ", "(", "F", "'", " ", "U", "'", " ", "F", ")", " ", "(", "R", " ", "U", " ", "R", "'", ")">>, anki_tags |-> <<"3x3x3", "OLL">>, _setup_rotation_before |-> <<>>, _setup_rotation_after |-> <<>>],
     [kind |-> "OLL", name |-> "A2 - 30", size |-> 3, _alg |-> <<"F", " ", "U", " ", "(", "R", " ", "U", "2", " ", "R", "'", " ", "U", "'", ")", " ", "(", "R", " ", "U", "2", " ", "R", "'", " ", "U", "'", ")", " ", "F", "'">>, anki_tags |-> <<"3x3x3", "OLL">>, _setup_rotation_before |-> <<>>, _setup_rotation_after |-> <<>>],
     [kind |-> "OLL", name |-> "A3 - 41", size |-> 3, _alg |-> <<"(", "R", " ", "U", " ", "R", "'", " ", "U", " ", "R", " ", "U", "2", "'", " ", "R", "'", ")", " ", "F", " ", "(", "R", " ", "U", " ", "R", "'", " ", "U", "'", ")", " ", "F", "'">>, anki_tags |-> <<"3x3x3", "OLL">>, _setup_rotation_before |-> <<>>, _setup_rotation_after |-> <<>>],
     [kind |-> "OLL", name |-> "A4 - 42", size |-> 3, _alg |-> <<"(", "R", "'", " ", "U", "'", " ", "R", " ", "U", "'", " ", "R", "'", " ", "U", "2", " ", "R", ")", " ", "F", " ", "(", "R", " ", "U", " ", "R", "'", " ", "U", "'", ")", " ", "F", "'">>, anki_tags |-> <<"3x3x3", "OLL">>, _setup_rotation_before |-> <<>>, _setup_rotation_after |-> <<>>],
     [kind |-> "OLL", name |-> "L1 - 47", size |-> 3, _alg |-> <<"F", "'", " ", "(", "L", "'", " ", "U", "'", " ", "L", " ", "U", ")", "(", "L", "'", " ", "U", "'", " ", "L", " ", "U", ")", " ", "F">>, anki_tags |-> <<"3x3x3", "OLL">>, _setup_rotation_before |-> <<>>, _setup_rotation_after |-> <<>>],
     [kind |-> "OLL", name |-> "L2 - 48", size |-> 3, _alg |-> <<"F", " ", "(", "R", " ", "U", " ", "R", "'", " ", "U", "'", ")", "(", "R", " ", "U", " ", "R", "'", " ", "U", "'", ")", " ", "F", "'">>, anki_tags |-> <<"3x3x3", "OLL">>, _setup_rotation_before |-> <<>>, _setup_rotation_after |-> <<>>],
     [kind |-> "OLL", name |-> "L3 - 49", size |-> 3, _alg |-> <<"r", " ", "U", "'", " ", "r", "2", "'", " ", "U", " ", "r", "2", " ", "U", " ", "r", "2", "'", " ", "U", "'", " ", "r">>, anki_tags |-> <<"3x3x3", "OLL">>, _setup_rotation_before |-> <<>>, _setup_rotation_after |-> <<>>],
     [kind |-> "OLL", name |-> "L4 - 50", size |-> 3, _alg |-> <<"r", "'", " ", "U", " ", "r", "2", " ", "U", "'", " ", "r", "2", "'", " ", "U", "'", " ", "r", "2", " ", "U", " ", "r", "'">>, anki_tags |-> <<"3x3x3", "OLL">>, _setup_rotation_before |-> <<>>, _setup_rotation_after |-> <<>>],
     [kind |-> "OLL", name |-> "L5 - 53", size |-> 3, _alg |-> <<"(", "r", "'", " ", "U", "'", " ", "R", " ", "U", "'", ")", " ", "(", "R", "'", " ", "U", " ", "R", " ", "U", "'", ")", " ", "R", "'", " ", "U", "2", " ", "r">>, anki_tags |-> <<"3x3x3", "OLL">>, _setup_rotation_before |-> <<>>, _setup_rotation_after |-> <<>>],
     [kind |-> "OLL", name |-> "L6 - 54", size |-> 3, _alg |-> <<"(", "r", " ", "U", " ", "R", "'", " ", "U", ")", " ", "(", "R", " ", "U", "'", " ", "R", "'", " ", "U", ")", " ", "R", " ", "U", "2", "'", " ", "r", "'">>, anki_tags |-> <<"3x3x3", "OLL">>, _setup_rotation_before |-> <<>>, _setup_rotation_after |-> <<>>],
     [kind |-> "OLL", name |-> "B1 - 7", size |-> 3, _alg |-> <<"r", " ", "U", " ", "R", "'", " ", "U", " ", "R", " ", "U", "2", " ", "r", "'">>, anki_tags |-> <<"3x3x3", "OLL">>, _setup_rotation_before |-> <<>>, _setup_rotation_after |-> <<>>],
     [kind |-> "OLL", name |-> "B2 - 8", size |-> 3, _alg |-> <<"r", "'", " ", "U", "'", " ", "R", " ", "U", "'", " ", "R", "'", " ", "U", "2", " ", "r">>, anki_tags |-> <<"3x3x3", "OLL">>, _setup_rotation_before |-> <<>>, _setup_rotation_after |-> <<>>],
     [kind |-> "OLL", name |-> "B3 - 11", size |-> 3, _alg |-> <<"r", "'", " ", "(", "R", "2", " ", "U", " ", "R", "'", " ", "U", " ", "R", " ", "U", "2", " ", "R", "'", ")", " ", "U", " ", "M", "'">>, anki_tags |-> <<"3x3x3", "OLL">>, _setup_rotation_before |-> <<>>, _setup_rotation_after |-> <<>>],
     [kind |-> "OLL", name |-> "B4 - 12", size |-> 3, _alg |-> <<"M", "'", " ", "(", "R", "'", " ", "U", "'", " ", "R", " ", "U", "'", " ", "R", "'", " ", "U", "2", " ", "R", ")", " ", "U", "'", " ", "M">>, anki_tags |-> <<"3x3x3", "OLL">>, _setup_rotation_before |-> <<>>, _setup_rotation_after |-> <<>>],
     [kind |-> "OLL", name |-> "B5 - 39", size |-> 3, _alg |-> <<"(", "L", " ", "F", "'", ")", "(", "L", "'", " ", "U", "'", " ", "L", " ", "U", ")", " ", "F", " ", "U", "'", " ", "L", "'">>, anki_tags |-> <<"3x3x3", "OLL">>, _setup_rotation_before |-> <<>>, _setup_rotation_after |-> <<>>],
     [kind |-> "OLL", name |-> "B6 - 40", size |-> 3, _alg |-> <<"(", "R", "'", " ", "F", ")", "(", "R", " ", "U", " ", "R", "'", " ", "U", "'", ")", " ", "F", "'", " ", "U", " ", "R">>, anki_tags |-> <<"3x3x3", "OLL">>, _setup_rotation_before |-> <<>>, _setup_rotation_after |-> <<>>],
     [kind |-> "OLL", name |-> "O1 - 1", size |-> 3, _alg |-> <<"(", "R", " ", "U", "2", ")", "(", "R", "2", " ", "F", " ", "R", " ", "F", "'", ")", " ", "U", "2", " ", "(", "R", "'", " ", "F", " ", "R", " ", "F", "'", ")">>, anki_tags |-> <<"3x3x3", "OLL">>, _setup_rotation_before |-> <<>>, _setup_rotation_after |-> <<>>],
     [kind |-> "OLL", name |-> "O2 - 2", size |-> 3, _alg |-> <<"F", " ", "(", "R", " ", "U", " ", "R", "'", " ", "U", "'", ")", " ", "F", "'", " ", "f", " ", "(", "R", " ", "U", " ", "R", "'", " ", "U", "'", ")", " ", "f", "'">>, anki_tags |-> <<"3x3x3", "OLL">>, _setup_rotation_before |-> <<>>, _setup_rotation_after |-> <<>>],
     [kind |-> "OLL", name |-> "O3 - 3", size |-> 3, _alg |-> <<"f", " ", "(", "R", " ", "U", " ", "R", "'", " ", "U", "'", ")", " ", "f", "'", " ", "U", "'", " ", "F", " ", "(", "R", " ", "U", " ", "R", "'", " ", "U", "'", ")", " ", "F", "'">>, anki_tags |-> <<"3x3x3", "OLL">>, _setup_rotation_before |-> <<>>, _setup_rotation_after |-> <<>>],
     [kind |-> "OLL", name |-> "O4 - 4", size |-> 3, _alg |-> <<"f", " ", "(", "R", " ", "U", " ", "R", "'", " ", "U", "'", ")", " ", "f", "'", " ", "U", " ", "F", " ", "(", "R", " ", "U", " ", "R", "'", " ", "U", "'", ")", " ", "F", "'">>, anki_tags |-> <<"3x3x3", "OLL">>, _setup_rotation_before |-> <<>>, _setup_rotation_after |-> <<>>],
     [kind |-> "OLL", name |-> "O5 - 17", size |-> 3, _alg |-> <<"(", "R", " ", "U", " ", "R", "'", " ", "U", ")", " ", "(", "R", "'", " ", "F", " ", "R", " ", "F", "'", ")", " ", "U", "2", " ", "(", "R", "'", " ", "F", " ", "R", " ", "F", "'", ")">>, anki_tags |-> <<"3x3x3", "OLL">>, _setup_rotation_before |-> <<>>, _setup_rotation_after |-> <<>>],
     [kind |-> "OLL", name |-> "O6 - 18", size |-> 3, _alg |-> <<"r", " ", "U", " ", "R", "'", " ", "U", " ", "R", " ", "U", "2", " ", "r", "2", " ", "U", "'", " ", "R", " ", "U", "'", " ", "R", "'", " ", "U", "2", " ", "r">>, anki_tags |-> <<"3x3x3", "OLL">>, _setup_rotation_before |-> <<>>, _setup_rotation_after |-> <<>>],
     [kind |-> "OLL", name |-> "O7 - 19", size |-> 3, _alg |-> <<"r", "'", " ", "U", "2", " ", "R", " ", "U", " ", "R", "'", " ", "U", " ", "r", "2", " ", "U", "2", " ", "R", "'", " ", "U", "'", " ", "R", " ", "U", "'", " ", "r", "'">>, anki_tags |-> <<"3x3x3", "OLL">>, _setup_rotation_before |-> <<>>, _setup_rotation_after |-> <<>>],
     [kind |-> "OLL", name |-> "O8 - 20", size |-> 3, _alg |-> <<"M", " ", "U", " ", "(", "R", " ", "U", " ", "R", "'", " ", "U", "'", ")", " ", "M", "2", " ", "(", "U", " ", "R", " ", "U", "'", " ", "r", "'", ")">>, anki_tags |-> <<"3x3x3", "OLL">>, _setup_rotation_before |-> <<>>, _setup_rotation_after |-> <<>>] >>

BIG_CUBE ==
  << [kind |-> "Front", name |-> "4x4x4 Edge Pairing", size |-> 4, _alg |-> <<"u", "'", " ", "R", " ", "F", "'", " ", "U", " ", "R", "'", " ", "F", " ", "u">>, _front_colour |-> "GREEN", anki_tags |-> <<"4x4x4", "EdgePairing">>, parameters |-> <<<<"fc", "sssssssssssssssssssssssrsssrssssssssssssssssssssssssssssssssssssssssssssssssssssssssgddsgddsssss">>>>],
     [kind |-> "PLL", name |-> "4x4x4 PLL Parity", size |-> 4, _alg |-> <<"2", "R", "2", " ", "U", "2", " ", "2", "R", "2", " ", "u", "2", " ", "2", "R", "2", " ", "2", "U", "2">>, arrows |-> <<"U13U2", "U2U13", "U14U1", "U1U14">>, _setup_rotation_before |-> <<>>, _setup_rotation_after |-> <<>>, anki_tags |-> <<"4x4x4", "PLL", "parity">>],
     [kind |-> "OLL", name |-> "4x4x4 OLL Parity", size |-> 4, _alg |-> <<"r", " ", "U", "2", " ", "x", " ", "r", " ", "U", "2", " ", "r", " ", "U", "2", " ", "r", "'", " ", "U", "2", " ", "l", " ", "U", "2", " ", "r", "'", " ", "U", "2", " ", "r", " ", "U", "2", " ", "r", "'", " ", "U", "2", " ", "r", "'">>, anki_tags |-> <<"4x4x4", "OLL", "parity">>, _setup_rotation_before |-> <<>>, _setup_rotation_after |-> <<>>],
     [kind |-> "General", name |-> "5x5x5 Parity", size |-> 5, _alg |-> <<"r", "2", " ", "B", "2", " ", "U", "2", " ", "l", " ", "U", "2", " ", "r", "'", " ", "U", "2", " ", "r", " ", "U", "2", " ", "F", "2", " ", "r", " ", "F", "2", " ", "l", "'", " ", "B", "2", " ", "r", "2">>, view |-> "plan", anki_tags |-> <<"5x5x5", "parity">>, arrows |-> <<>>, parameters |-> <<<<"fc", "ssssssdddssdddssdddssrrrsssssssdddssdddssdddsssssssbbbssdddssdddssdddssssssssssssdddssdddssdddssssssssssssdddssdddssdddssssssssssssdddssdddssdddssssss">>>>],
     [kind |-> "Front", name |-> "5x5x5 Edge Pairing 1", size |-> 5, _alg |-> <<"u", "'", " ", "R", " ", "F", "'", " ", "U", " ", "R", "'", " ", "F", " ", "u">>, _front_colour |-> "GREEN", anki_tags |-> <<"5x5x5", "EdgePairing">>, parameters |-> <<<<"fc", "ssssssssssssssssssssssssssssssssssrssssrssssssssssssssssssssssssssssssssssssssssssssssssssssssssssssssssssssssssssssssssssssssssssgdddsgdddssdddsssgs">>>>],
     [kind |-> "Front", name |-> "5x5x5 Edge Pairing 2", size |-> 5, _alg |-> <<"u", "'", " ", "R", " ", "F", "'", " ", "U", " ", "R", "'", " ", "F", " ", "u">>, _front_colour |-> "GREEN", anki_tags |-> <<"5x5x5", "EdgePairing">>, parameters |-> <<<<"fc", "ssssssssssssssssssssssssssssssssssssssssssssssssssssssssssssssssssssssssssssssssssssssssssssssssssssssssssssssossssosssssssssssssssdddssdddgsdddgsssss">>>>],
     [kind |-> "Front", name |-> "5x5x5 Edge Pairing 3", size |-> 5, _alg |-> <<"d", " ", "R", " ", "F", "'", " ", "U", " ", "R", "'", " ", "F", " ", "d", "'">>, _front_colour |-> "GREEN", anki_tags |-> <<"5x5x5", "EdgePairing">>, parameters |-> <<<<"fc", "sssssssssssssssssssssssssssssssssssssssrssssrssssssssssssssssssssssssssssssssssssssssssssssssssssssssssssssssssssssssssssssssssssssdddsgdddsgdddsssss">>>>],
     [kind |-> "Front", name |-> "5x5x5 Edge Pairing 4", size |-> 5, _alg |-> <<"d", " ", "R", " ", "F", "'", " ", "U", " ", "R", "'", " ", "F", " ", "d", "'">>, _front_colour |-> "GREEN", anki_tags |-> <<"5x5x5", "EdgePairing">>, parameters |-> <<<<"fc", "sssssssssssssssssssssssssssssssssssssssssssssssssssssssssssssssssssssssssssssssssssssssssssssssssssssssssossssossssssssssssssssssssdddgsdddgsdddssssss">>>>],
     [kind |-> "Front", name |-> "5x5x5 Edge Flipping", size |-> 5, _alg |-> <<"(", "R", " ", "U", " ", "R", "'", ")", " ", "(", "F", " ", "R", "'", " ", "F", "'", " ", "R", ")">>, _front_colour |-> "RED", anki_tags |-> <<"5x5x5", "EdgePairing">>, parameters |-> <<<<"fc", "sssssssssssssssssssssssssssssssrrrrsrrrrsrrrrsssssssssssssssssssssssssssssssssssssssssssssssssssssssssssssssssssssssssssssssssssssgssssgssssgsssssssss">>>>] >>

\* The numbering started at 0 (a seeded fault of start=1).
TWO_LOOK_OLL_from_zero ==
  LET tagged == SelectSeq(OLL, LAMBDA alg : "2-Look-OLL" \in Range(alg.anki_tags))
  IN  [n \in 1..Len(tagged) |-> [tagged[n] EXCEPT !.name = "2LOLL " \o str(n - 1)]]

\* The tagged OLL records under their OLL names (a seeded fault).
TWO_LOOK_OLL_not_renamed ==
  SelectSeq(OLL, LAMBDA alg : "2-Look-OLL" \in Range(alg.anki_tags))

\* TWO_LOOK_OLL: the OLL records tagged 2-Look-OLL, renamed "2LOLL n".
TWO_LOOK_OLL ==
  LET tagged == SelectSeq(OLL, LAMBDA alg : "2-Look-OLL" \in Range(alg.anki_tags))
  IN  [n \in 1..Len(tagged) |-> [tagged[n] EXCEPT !.name = "2LOLL " \o str(n)]]

---------------------------------------------------------------------------
(* generate_algorithm_cards.py *)

_FMT == "svg"

\* _BASE_URL, an f-string: its text pieces in order.
_BASE_URL ==
  <<"https://visualcube.api.cubing.net", "?", "fmt", "=", _FMT, "&", "ac", "=", "black", "&">>

\* Apply the (origin, substitution) pairs in order, each with str.replace.
RECURSIVE substitute(_, _)
substitute(raw_alg, substitutions) ==
  IF substitutions = <<>> THEN raw_alg
  ELSE substitute(replace(raw_alg, Head(substitutions)[1], Head(substitutions)[2]),
                  Tail(substitutions))

\* human_to_visualiser with the parentheses turned into spaces after the
\* spaces were stripped (a seeded fault).
human_to_visualiser_paren_space(alg) ==
  substitute(alg, << <<<<"2", "R", "2">>, <<"r", "2", "R", "2">>>>,
                     <<<<"2", "U", "2">>, <<"u", "2", "U", "2">>>>,
                     <<<<" ">>, <<>>>>,
                     <<<<"(">>, <<" ">>>>,
                     <<<<")">>, <<" ">>>> >>)

\* human_to_visualiser without the 2U2 alias (a seeded fault).
human_to_visualiser_no_2U2(alg) ==
  substitute(alg, << <<<<"2", "R", "2">>, <<"r", "2", "R", "2">>>>,
                     <<<<" ">>, <<>>>>,
                     <<<<"(">>, <<>>>>,
                     <<<<")">>, <<>>>> >>)

\* human_to_visualiser of the package.
human_to_visualiser(alg) ==
  substitute(alg, << <<<<"2", "R", "2">>, <<"r", "2", "R", "2">>>>,
                     <<<<"2", "U", "2">>, <<"u", "2", "U", "2">>>>,
                     <<<<" ">>, <<>>>>,
                     <<<<"(">>, <<>>>>,
                     <<<<")">>, <<>>>> >>)

\* human_to_visualiser of scripts/generate-algorithm-cards.py and
\* scripts/generate-big-cube-specials.py: parentheses go first, spaces last.
human_to_visualiser_script(alg) ==
  substitute(alg, << <<<<"(">>, <<>>>>,
                     <<<<")">>, <<>>>>,
                     <<<<"2", "R", "2">>, <<"r", "2", "R", "2">>>>,
                     <<<<"2", "U", "2">>, <<"u", "2", "U", "2">>>>,
                     <<<<" ">>, <<>>>> >>)

\* download_case up to the request: the text of full_url as its pieces in
\* order.  An f-string contributes its literal pieces and its values; the
\* sanitized sequence contributes its characters.
download_case(case) ==
  LET alg == human_to_visualiser(visualiser_algorithm(case))
      items == parameters(case)
      param_assignments ==
        [i \in 1..Len(items) |-> <<items[i][1], "=", items[i][2]>>]
        \o << <<"pzl", "=", str(case.size)>>, <<"case", "=">> \o alg >>
      with_view == IF view(case) # "None"
                   THEN param_assignments \o << <<"view", "=", view(case)>> >>
                   ELSE param_assignments
      arrow_pieces == [i \in 1..Len(arrows(case)) |-> <<arrows(case)[i]>>]
      with_arrows == IF Len(arrows(case)) > 0
                     THEN with_view \o << <<"arw", "=">> \o join_pieces(",", arrow_pieces) >>
                     ELSE with_view
      params == join_pieces("&", with_arrows)
  IN  _BASE_URL \o params

\* main: algorithms_by_set_name and decknames.
AlgorithmSets == {"all", "pll", "oll", "2-look-oll", "big-cube"}

algorithms_by_set_name(set_name) ==
  CASE set_name = "pll" -> PLL
    [] set_name = "oll" -> OLL
    [] set_name = "2-look-oll" -> TWO_LOOK_OLL
    [] set_name = "big-cube" -> BIG_CUBE

decknames(set_name) ==
  CASE set_name = "pll" -> "Cubing::3x3x3::PLL with Arrows"
    [] set_name = "oll" -> "Cubing::3x3x3::OLL"
    [] set_name = "2-look-oll" -> "Cubing::3x3x3::2-Look OLL"
    [] set_name = "big-cube" -> "Cubing::NxNxN::Parities and Edge Pairing"

\* main: the records selected by --algorithm-set.
select_algorithms(algorithm_set) ==
  IF algorithm_set = "all"
  THEN algorithms_by_set_name("pll") \o algorithms_by_set_name("oll")
       \o algorithms_by_set_name("2-look-oll") \o algorithms_by_set_name("big-cube")
  ELSE algorithms_by_set_name(algorithm_set)

select_deckname(algorithm_set) ==
  IF algorithm_set = "all" THEN "Cubing::Algorithms" ELSE decknames(algorithm_set)

\* Every record written to one path (a seeded fault).
case_fnames_shared(case) == [stem |-> "case", suffix |-> "." \o _FMT]

\* main: case_fnames[case] = targetdir / f"{case.name}.{_FMT}", as the file
\* name split by pathlib into stem and suffix.
case_fnames(case) == [stem |-> case.name, suffix |-> "." \o _FMT]

\* pathlib: Path.with_suffix and Path.name.
with_suffix(path, suffix) == [path EXCEPT !.suffix = suffix]

path_name(path) == path.stem \o path.suffix

\* create_anki_csv of the package: the lines written, each the sequence of the
\* pieces of text that make it up (columns are separated by "\t" pieces).
csv_row(case) ==
  LET img_path == case_fnames(case)
      img_html == "<img src=\"" \o path_name(img_path) \o "\">"
      tags == join(" ", case.anki_tags)
      alg == human_algorithm(case)
  IN  <<img_html, "\t", case.name, "\t">> \o alg \o <<"\t", tags>>

create_anki_csv(algs, deckname) ==
  << <<"#", "separator:tab">>,
     <<"#", "notetype:cubingalg+">>,
     <<"#", "deck:", deckname>> >>
  \o [i \in 1..Len(algs) |-> csv_row(algs[i])]

\* create_anki_csv of scripts/generate-big-cube-specials.py: a fourth line
\* naming the columns is written before the cards.
create_anki_csv_big_cube_specials(algs, deckname) ==
  << <<"#", "separator:tab">>,
     <<"#", "notetype:cubingalg+">>,
     <<"#", "deck:", deckname>>,
     <<"Image", "\t", "Name", "\t", "Algorithm", "\t", "Tags">> >>
  \o [i \in 1..Len(algs) |-> csv_row(algs[i])]

---------------------------------------------------------------------------
(* physical_cards.py: the page layout.  The markup is the sequence of its  *)
(* blocks: a tabular with its rows of cells, or a \newpage.  A cell is the *)
(* macro call it holds, <<macro, argument>>, or <<>> for the empty string. *)

CardsPerPage == 9
Columns == 3
FullPageRows == 3

Tabular(rows) == [block |-> "tabular", rows |-> rows]

NewPage == [block |-> "newpage", rows |-> <<>>]

cubeimg(icon_path) == <<"\\cubeimg", icon_path>>

cubealgo(algo_text) == <<"\\cubealgo", algo_text>>

\* The "\\\\\\\\" appended to the algorithm texts of a full page.
LineBreak == <<"\\", "\\", "\\", "\\">>

\* icon_paths = [case_fnames[alg].with_suffix(".pdf").name for alg in page_algorithms]
icon_paths(page_algorithms) ==
  [i \in 1..Len(page_algorithms) |->
     path_name(with_suffix(case_fnames(page_algorithms[i]), ".pdf"))]

\* Column-major cell index (a seeded fault of idx = row * 3 + col).
full_page_idx_transposed(row, col) == col * Columns + row

\* _generate_full_page: idx = row * 3 + col
full_page_idx(row, col) == row * Columns + col

\* Columns of a back row taken left to right (a seeded fault of range(2, -1, -1)).
back_columns_forward == <<0, 1, 2>>

\* range(2, -1, -1) of the back grids
back_columns == <<2, 1, 0>>

\* _generate_full_page; rows and columns are counted from 0 as in the code.
_generate_full_page(page_algorithms, start_idx) ==
  LET icons == icon_paths(page_algorithms)
      algo_texts == [i \in 1..Len(page_algorithms) |->
                       human_algorithm(page_algorithms[i]) \o LineBreak]
      front_row(row) ==
        [c \in 1..Columns |-> cubeimg(icons[full_page_idx(row, c - 1) + 1])]
      back_row(row) ==
        [c \in 1..Len(back_columns) |->
           cubealgo(algo_texts[full_page_idx(row, back_columns[c]) + 1])]
      front_table == Tabular([r \in 1..FullPageRows |-> front_row(r - 1)])
      back_table == <<NewPage, Tabular([r \in 1..FullPageRows |-> back_row(r - 1)])>>
  IN  <<front_table>> \o back_table

\* A partial page padded to the full three rows (a seeded fault).
partial_page_rows_padded(count) == FullPageRows

\* _generate_partial_page: rows = (count + 2) // 3
partial_page_rows(count) == (count + 2) \div 3

\* The front loop of _generate_partial_page over the cells of all rows in
\* order, with its running counter: the cells still to emit.
RECURSIVE partial_front_cells(_, _, _, _)
partial_front_cells(icons, count, cells_left, counter) ==
  IF cells_left = 0 THEN <<>>
  ELSE IF counter < count
       THEN <<cubeimg(icons[counter + 1])>>
            \o partial_front_cells(icons, count, cells_left - 1, counter + 1)
       ELSE << <<>> >> \o partial_front_cells(icons, count, cells_left - 1, counter)

\* _generate_partial_page
_generate_partial_page(page_algorithms, start_idx) ==
  LET count == Len(page_algorithms)
      rows == partial_page_rows(count)
      icons == icon_paths(page_algorithms)
      algo_texts == [i \in 1..count |-> human_algorithm(page_algorithms[i])]
      front_cells == partial_front_cells(icons, count, rows * Columns, 0)
      front_rows == [r \in 1..rows |->
                       SubSeq(front_cells, (r - 1) * Columns + 1, r * Columns)]
      back_row(row) ==
        [c \in 1..Len(back_columns) |->
           LET idx == row * Columns + back_columns[c]
           IN  IF idx < count THEN cubealgo(algo_texts[idx + 1]) ELSE <<>>]
      front_table == Tabular(front_rows)
      back_table == <<NewPage, Tabular([r \in 1..rows |-> back_row(r - 1)])>>
  IN  <<front_table>> \o back_table

\* A page that loses its last record (a seeded fault of the slice end).
page_end_short(start_idx, n) == Min(start_idx + CardsPerPage - 1, n)

\* generate_latex_pages: end_idx = min(start_idx + 9, len(algorithms))
page_end(start_idx, n) == Min(start_idx + CardsPerPage, n)

\* generate_latex_pages: the pages list, one entry per start_idx.
latex_pages(algs) ==
  LET starts == range(0, Len(algs), CardsPerPage)
  IN  [p \in 1..Len(starts) |->
         LET start_idx == starts[p]
             end_idx == page_end(start_idx, Len(algs))
             page_algorithms == SubSeq(algs, start_idx + 1, end_idx)
         IN  IF Len(page_algorithms) = CardsPerPage
             THEN _generate_full_page(page_algorithms, start_idx)
             ELSE _generate_partial_page(page_algorithms, start_idx)]

\* "\n".join(pages): the blocks of the pages one after another.
RECURSIVE join_pages(_)
join_pages(pages) ==
  IF pages = <<>> THEN <<>> ELSE Head(pages) \o join_pages(Tail(pages))

generate_latex_pages(algs) == join_pages(latex_pages(algs))

---------------------------------------------------------------------------
(* generate_physical_cards.py: the page layout over the card numbers 1..N.  *)
(* The markup is a sequence of blocks as above; a \cubepage or \setcounter  *)
(* block carries its argument.                                              *)

cubepage(start_idx) == [block |-> "cubepage", rows |-> <<>>, arg |-> start_idx]

setcounter(value) == [block |-> "setcounter", rows |-> <<>>, arg |-> value]

cubeimgstep == <<"\\cubeimgstep">>

\* f"{idx:02d}"
two_digits(idx) == IF idx < 10 THEN "0" \o str(idx) ELSE str(idx)

\* The front loop of generate_partial_page over the cells of all rows in
\* order, with its running counter: the cells still to emit.
RECURSIVE step_front_cells(_, _, _, _)
step_front_cells(start_idx, count, cells_left, counter) ==
  IF cells_left = 0 THEN <<>>
  ELSE IF counter <= start_idx + count - 1
       THEN <<cubeimgstep>> \o step_front_cells(start_idx, count, cells_left - 1, counter + 1)
       ELSE << <<>> >> \o step_front_cells(start_idx, count, cells_left - 1, counter)

\* generate_partial_page(start_idx, count)
generate_partial_page(start_idx, count) ==
  LET rows == (count + 2) \div 3
      front_cells == step_front_cells(start_idx, count, rows * 3, start_idx)
      front_rows == [r \in 1..rows |-> SubSeq(front_cells, (r - 1) * 3 + 1, r * 3)]
      back_row(row) ==
        LET row_start == start_idx + row * 3
            cols == <<2, 1, 0>>
        IN  [c \in 1..Len(cols) |->
               LET idx == row_start + cols[c]
               IN  IF idx <= start_idx + count - 1 THEN cubealgo(two_digits(idx)) ELSE <<>>]
      front_table == <<setcounter(start_idx), Tabular(front_rows)>>
      back_table == <<NewPage, Tabular([r \in 1..rows |-> back_row(r - 1)])>>
  IN  front_table \o back_table

\* The partial page started at the last card of the full pages (a seeded fault).
partial_start_idx_zero_based(num_cards) == (num_cards \div 9) * 9

\* generate_latex_pages(num_cards): start_idx = (num_cards // 9) * 9 + 1
partial_start_idx(num_cards) == (num_cards \div 9) * 9 + 1

\* generate_latex_pages(num_cards) of generate_physical_cards.py
generate_latex_pages_num_cards(num_cards) ==
  LET starts == SelectSeq(range(1, num_cards, 9),
                          LAMBDA start_idx : start_idx + 8 <= num_cards)
      full_pages == [p \in 1..Len(starts) |-> <<cubepage(starts[p])>>]
      remaining == num_cards % 9
      partial_pages == IF remaining > 0
                       THEN << generate_partial_page(partial_start_idx(num_cards), remaining) >>
                       ELSE <<>>
  IN  join_pages(full_pages \o partial_pages)

\* The macros of the document template: \cubeimgstep typesets the icon of the
\* card numbered by cardcounter and steps the counter.  The card of each cell
\* of a front grid after \setcounter{cardcounter}{value}, 0 for an empty cell.
RECURSIVE cardcounter_cards(_, _)
cardcounter_cards(value, cells) ==
  IF cells = <<>> THEN <<>>
  ELSE IF Head(cells) = cubeimgstep
       THEN <<value>> \o cardcounter_cards(value + 1, Tail(cells))
       ELSE <<0>> \o cardcounter_cards(value, Tail(cells))

---------------------------------------------------------------------------
(* The state. *)

VARIABLES
  algorithm_set,   \* main: --algorithm-set
  algorithms,      \* the record list handed to the emitters
  deckname,        \* main: the deck label of the selected set
  latex,           \* the markup returned by generate_latex_pages
  csv,             \* the lines written by create_anki_csv (package)
  csv_specials,    \* the lines written by create_anki_csv (big-cube-specials script)
  request,         \* the last request issued by download_case, if any
  ran,             \* the emitters and record operations that have run
  extended,        \* the last call of extend_anki_tags, if any
  counter_latex,   \* the markup returned by generate_latex_pages(num_cards)
  raw,             \* a move-sequence string
  impl,            \* which human_to_visualiser was applied to raw
  vis,             \* human_to_visualiser(raw)
  vis_twice,       \* human_to_visualiser(vis)
  str_pc,          \* "idle", "raw", "once" or "twice"
  pc,              \* main: the statement it is at ("idle": no run of main)
  algorithm,       \* main: --algorithm, the glob on the record names
  skip_image_generation,    \* main: --skip-image-generation
  generate_learning_cards,  \* main: --generate-learning-cards
  max_workers,     \* main: --max-workers, <<>> for None and <<m>> for m
  algorithm_to_generate,    \* main: the records that match the glob
  targetdir,       \* whether the target directory has been created
  futures,         \* download_images: the state of the task of each record
  next_result,     \* download_images: the record whose result is awaited
  requests,        \* the records a request was issued for, in order of issue
  image_files,     \* the image paths written by this run, in order of writing
  contents,        \* download_images: the response content of each task, once there
  files,           \* the image files of the target directory: path and bytes
  error,           \* the exception main ended with, "none" if none
  moves,           \* algorithm_to_latex: the moves found in the string
  latex_tokens,    \* algorithm_to_latex: one token per move
  alg_latex,       \* algorithm_to_latex: the returned text
  escaped          \* escape_latex: the returned text

vars == <<algorithm_set, algorithms, deckname, latex, csv, csv_specials, request,
          ran, extended, counter_latex, raw, impl, vis, vis_twice, str_pc, pc, algorithm,
          skip_image_generation, generate_learning_cards, max_workers,
          algorithm_to_generate, targetdir, futures, next_result, requests,
          image_files, contents, files, error, moves, latex_tokens, alg_latex, escaped>>

tok_vars == <<moves, latex_tokens, alg_latex, escaped>>

\* No call of algorithm_to_latex or escape_latex.
TokIdle ==
  /\ moves = <<>>
  /\ latex_tokens = <<>>
  /\ alg_latex = <<>>
  /\ escaped = <<>>

main_vars == <<pc, algorithm, skip_image_generation, generate_learning_cards,
               max_workers, algorithm_to_generate, targetdir, futures, next_result,
               requests, image_files, contents, files, error>>

\* No run of main.
MainIdle ==
  /\ pc = "idle"
  /\ algorithm = "*"
  /\ skip_image_generation = FALSE
  /\ generate_learning_cards = FALSE
  /\ max_workers = <<>>
  /\ algorithm_to_generate = <<>>
  /\ targetdir = FALSE
  /\ futures = <<>>
  /\ next_result = 1
  /\ requests = <<>>
  /\ image_files = <<>>
  /\ contents = <<>>
  /\ files = {}
  /\ error = "none"

emitter_vars == <<algorithm_set, algorithms, deckname, latex, csv, csv_specials,
                  request, ran, extended, counter_latex>>

string_vars == <<raw, impl, vis, vis_twice, str_pc>>

\* The record lists: the first records of each selectable set, up to MaxCards.
Prefix(s, n) == SubSeq(s, 1, Min(n, Len(s)))

\* The move-sequence strings of at most MaxLen characters.
Strings == UNION {[1..n -> Chars] : n \in 0..MaxLen}

Init ==
  /\ algorithm_set \in AlgorithmSets
  /\ \E n \in 0..MaxCards : algorithms = Prefix(select_algorithms(algorithm_set), n)
  /\ deckname = select_deckname(algorithm_set)
  /\ latex = <<>>
  /\ csv = <<>>
  /\ csv_specials = <<>>
  /\ request = <<>>
  /\ ran = {}
  /\ extended = <<>>
  /\ counter_latex = <<>>
  /\ raw = <<>>
  /\ impl = "none"
  /\ vis = <<>>
  /\ vis_twice = <<>>
  /\ str_pc = "idle"
  /\ MainIdle
  /\ TokIdle

\* A behaviour is one call of download_case, one call of extend_anki_tags, one
\* run of the script's emitter, or the emitters of the package in the order of
\* main, create_anki_csv, then the page layout, and after them the page layout
\* of generate_physical_cards.py.

\* generate_latex_pages(algorithms, case_fnames)
GenerateLatexPages ==
  /\ request = <<>>
  /\ ran \subseteq {"csv"}
  /\ latex' = generate_latex_pages(algorithms)
  /\ ran' = ran \cup {"latex"}
  /\ UNCHANGED <<algorithm_set, algorithms, deckname, csv, csv_specials, request>>
  /\ UNCHANGED string_vars
  /\ UNCHANGED main_vars
  /\ UNCHANGED tok_vars
  /\ UNCHANGED <<extended, counter_latex>>

\* create_anki_csv(algorithms, case_fnames, csv_fname, deckname)
CreateAnkiCsv ==
  /\ request = <<>>
  /\ ran = {}
  /\ csv' = create_anki_csv(algorithms, deckname)
  /\ ran' = ran \cup {"csv"}
  /\ UNCHANGED <<algorithm_set, algorithms, deckname, latex, csv_specials, request>>
  /\ UNCHANGED string_vars
  /\ UNCHANGED main_vars
  /\ UNCHANGED tok_vars
  /\ UNCHANGED <<extended, counter_latex>>

\* create_anki_csv of scripts/generate-big-cube-specials.py
CreateAnkiCsvBigCubeSpecials ==
  /\ request = <<>>
  /\ ran = {}
  /\ csv_specials' = create_anki_csv_big_cube_specials(algorithms, deckname)
  /\ ran' = ran \cup {"csv_specials"}
  /\ UNCHANGED <<algorithm_set, algorithms, deckname, latex, csv, request>>
  /\ UNCHANGED string_vars
  /\ UNCHANGED main_vars
  /\ UNCHANGED tok_vars
  /\ UNCHANGED <<extended, counter_latex>>

\* FrontColour
FrontColours == {"RED", "BLUE", "ORANGE", "GREEN"}

\* The records download_case is called with: the records of the list, the
\* general records of the list with each other value of their view field
\* (View | None), and the front-face records of the list with each other
\* value of their front colour.
RequestCases(algs) ==
  Range(algs)
  \cup {[r EXCEPT !.view = v] : r \in {c \in Range(algs) : c.kind = "General"},
                                v \in {"plan", "trans", "None"}}
  \cup {[r EXCEPT !._front_colour = colour] :
          r \in {c \in Range(algs) : c.kind = "Front"}, colour \in FrontColours}

\* download_case(case) for one record of the list: the request is built and
\* sent; the service answers with success or with an error status.
DownloadCase ==
  /\ request = <<>>
  /\ ran = {}
  /\ \E case \in RequestCases(algorithms), status \in {"ok", "error"} :
       request' = << [case |-> case,
                      full_url |-> download_case(case),
                      status |-> status] >>
  /\ UNCHANGED <<algorithm_set, algorithms, deckname, latex, csv, csv_specials, ran>>
  /\ UNCHANGED string_vars
  /\ UNCHANGED main_vars
  /\ UNCHANGED tok_vars
  /\ UNCHANGED <<extended, counter_latex>>

\* The tag lists extend_anki_tags is called with.
TagLists == {<<>>, <<"2-Look-OLL">>, <<"a", "b">>}

\* extend_anki_tags(tags) on an OLL record of the list: a new record is
\* constructed and returned; nothing is assigned to self.
ExtendAnkiTags ==
  /\ request = <<>>
  /\ ran = {}
  /\ \E index \in DOMAIN algorithms, tags \in TagLists :
       /\ algorithms[index].kind = "OLL"
       /\ extended' = << [index |-> index,
                          self |-> algorithms[index],
                          tags |-> tags,
                          result |-> extend_anki_tags(algorithms[index], tags)] >>
  /\ ran' = ran \cup {"extend"}
  /\ UNCHANGED <<algorithm_set, algorithms, deckname, latex, csv, csv_specials, request,
                 counter_latex>>
  /\ UNCHANGED string_vars
  /\ UNCHANGED main_vars
  /\ UNCHANGED tok_vars

\* generate_latex_pages(num_cards) of generate_physical_cards.py for the cards
\* of the list, numbered 1..len(algorithms).
GenerateLatexPagesNumCards ==
  /\ request = <<>>
  /\ ran \subseteq {"csv", "latex"}
  /\ counter_latex' = generate_latex_pages_num_cards(Len(algorithms))
  /\ ran' = ran \cup {"numbered"}
  /\ UNCHANGED <<algorithm_set, algorithms, deckname, latex, csv, csv_specials, request,
                 extended>>
  /\ UNCHANGED string_vars
  /\ UNCHANGED main_vars
  /\ UNCHANGED tok_vars

Next ==
  \/ GenerateLatexPages
  \/ CreateAnkiCsv
  \/ CreateAnkiCsvBigCubeSpecials
  \/ DownloadCase
  \/ ExtendAnkiTags
  \/ GenerateLatexPagesNumCards

Spec == Init /\ [][Next]_vars

\* human_to_visualiser on the bounded strings.
InitStr ==
  /\ algorithm_set = "all"
  /\ algorithms = <<>>
  /\ deckname = select_deckname("all")
  /\ latex = <<>>
  /\ csv = <<>>
  /\ csv_specials = <<>>
  /\ request = <<>>
  /\ ran = {}
  /\ extended = <<>>
  /\ counter_latex = <<>>
  /\ raw \in Strings
  /\ impl = "none"
  /\ vis = <<>>
  /\ vis_twice = <<>>
  /\ str_pc = "raw"
  /\ MainIdle
  /\ TokIdle

\* human_to_visualiser(raw), package
HumanToVisualiser ==
  /\ str_pc = "raw"
  /\ vis' = human_to_visualiser(raw)
  /\ impl' = "package"
  /\ str_pc' = "once"
  /\ UNCHANGED <<raw, vis_twice>>
  /\ UNCHANGED emitter_vars
  /\ UNCHANGED main_vars
  /\ UNCHANGED tok_vars

\* human_to_visualiser(raw), scripts
HumanToVisualiserScript ==
  /\ str_pc = "raw"
  /\ vis' = human_to_visualiser_script(raw)
  /\ impl' = "script"
  /\ str_pc' = "once"
  /\ UNCHANGED <<raw, vis_twice>>
  /\ UNCHANGED emitter_vars
  /\ UNCHANGED main_vars
  /\ UNCHANGED tok_vars

\* The same function applied to its own result.
HumanToVisualiserAgain ==
  /\ str_pc = "once"
  /\ vis_twice' = IF impl = "package" THEN human_to_visualiser(vis)
                  ELSE human_to_visualiser_script(vis)
  /\ str_pc' = "twice"
  /\ UNCHANGED <<raw, impl, vis>>
  /\ UNCHANGED emitter_vars
  /\ UNCHANGED main_vars
  /\ UNCHANGED tok_vars

NextStr ==
  \/ HumanToVisualiser
  \/ HumanToVisualiserScript
  \/ HumanToVisualiserAgain

SpecStr == InitStr /\ [][NextStr]_vars

---------------------------------------------------------------------------
(* generate_algorithm_cards.py: a run of main. *)

\* fnmatch.fnmatch(name, pattern) for the patterns of the model: "*" and the
\* patterns without a metacharacter, which match the equal name only.
fnmatch(name, pattern) == pattern = "*" \/ pattern = name

\* A pattern that is the name of no record.
NoSuchCase == "no-such-case"

\* main: the values of --algorithm for a record list.
Patterns(algs) == {"*", NoSuchCase} \cup {algs[i].name : i \in DOMAIN algs}

\* main: [case for case in algorithms if fnmatch.fnmatch(case.name, algorithm)]
RECURSIVE matching(_, _)
matching(algs, pattern) ==
  IF algs = <<>> THEN <<>>
  ELSE IF fnmatch(Head(algs).name, pattern)
       THEN <<Head(algs)>> \o matching(Tail(algs), pattern)
       ELSE matching(Tail(algs), pattern)

\* A filter that never counts as empty (a seeded fault).
no_match_ignored(to_generate) == FALSE

\* main: len(algorithm_to_generate) == 0
no_match(to_generate) == Len(to_generate) = 0

\* Fetching whatever the flag says (a seeded fault).
fetches_always(skip) == TRUE

\* main: if not skip_image_generation
fetches(skip) == ~skip

\* ThreadPoolExecutor(max_workers=max_workers): the number of worker threads;
\* None gives the default of the host.
pool_size(workers) == IF workers = <<>> THEN HostWorkers ELSE workers[1]

\* The response contents of the image service.
Contents == {"svg a", "svg b"}

\* Every result carrying the content of the first task (a seeded fault).
map_result_first_content(cases, results, i) == <<cases[i], results[1]>>

\* executor.map(lambda case: (case, download_case(case)), algorithms): the i-th
\* item of the iterator is the i-th record with the content fetched for it.
map_result(cases, results, i) == <<cases[i], results[i]>>

\* Path.write_bytes: the file at dest holds the data, whatever it held before.
write_bytes(fs, dest, data) ==
  {f \in fs : f.path # dest} \cup {[path |-> dest, bytes |-> data]}

\* A fetch whose failure goes unnoticed (a seeded fault).
download_case_raises_never(outcome) == FALSE

\* download_case: requests.get raises on a timeout and raise_for_status raises
\* on a non-success status.
download_case_raises(outcome) == outcome \in {"error", "timeout"}

\* The exception of a failed fetch.
download_case_exception(outcome) == IF outcome = "timeout" THEN "Timeout" ELSE "HTTPError"

\* The tasks in a given state.
InState(fs, states) == {i \in DOMAIN fs : fs[i] \in states}

\* The generator of executor.map is closed: the futures not yet started are
\* cancelled.
cancel_pending(fs) == [i \in DOMAIN fs |-> IF fs[i] = "pending" THEN "cancelled" ELSE fs[i]]

\* physical_cards.py: the parameters of generate_physical_cards, none with a
\* default, and the arguments main calls it with.
generate_physical_cards_parameters == <<"algorithms", "case_fnames", "target_dir">>

main_call_arguments == <<"algorithms", "targetdir">>

\* A Python call of a function without defaults binds its positional arguments
\* iff there is one for each parameter; otherwise it raises TypeError.
binds(params, args) == Len(args) = Len(params)

InitMain ==
  /\ algorithm_set \in AlgorithmSets
  /\ \E n \in 1..MaxRecords : algorithms = Prefix(select_algorithms(algorithm_set), n)
  /\ deckname = select_deckname(algorithm_set)
  /\ latex = <<>>
  /\ csv = <<>>
  /\ csv_specials = <<>>
  /\ request = <<>>
  /\ ran = {}
  /\ extended = <<>>
  /\ counter_latex = <<>>
  /\ raw = <<>>
  /\ impl = "none"
  /\ vis = <<>>
  /\ vis_twice = <<>>
  /\ str_pc = "idle"
  /\ pc = "select"
  /\ algorithm \in Patterns(algorithms)
  /\ skip_image_generation \in BOOLEAN
  /\ generate_learning_cards \in BOOLEAN
  /\ max_workers \in {<<>>} \cup {<<m>> : m \in 1..MaxWorkers}
  /\ algorithm_to_generate = <<>>
  /\ targetdir = FALSE
  /\ futures = <<>>
  /\ next_result = 1
  /\ requests = <<>>
  /\ image_files = <<>>
  /\ contents = <<>>
  /\ files = {}
  /\ error = "none"
  /\ TokIdle

main_frame == <<algorithm_set, algorithms, deckname, csv_specials, request, extended,
                counter_latex, raw, impl,
                vis, vis_twice, str_pc, algorithm, skip_image_generation,
                generate_learning_cards, max_workers, moves, latex_tokens, alg_latex,
                escaped>>

\* main, lines 153-159: the glob filter; no match raises ValueError.
MainFilter ==
  /\ pc = "select"
  /\ algorithm_to_generate' = matching(algorithms, algorithm)
  /\ IF no_match(algorithm_to_generate')
     THEN pc' = "raised" /\ error' = "ValueError"
     ELSE pc' = "mkdir" /\ error' = error
  /\ UNCHANGED <<latex, csv, ran, targetdir, futures, next_result, requests, image_files>>
  /\ UNCHANGED main_frame
  /\ UNCHANGED <<contents, files>>

\* main, lines 161-163: case_fnames, targetdir.mkdir, the test of the skip flag.
MainMkdir ==
  /\ pc = "mkdir"
  /\ targetdir' = TRUE
  /\ pc' = IF fetches(skip_image_generation) THEN "download" ELSE "csv"
  /\ UNCHANGED <<latex, csv, ran, algorithm_to_generate, futures, next_result, requests,
                 image_files, error>>
  /\ UNCHANGED main_frame
  /\ UNCHANGED <<contents, files>>

\* download_images: executor.map submits one task per record, in input order.
ExecutorMap ==
  /\ pc = "download"
  /\ futures' = [i \in DOMAIN algorithm_to_generate |-> "pending"]
  /\ contents' = [i \in DOMAIN algorithm_to_generate |-> "none"]
  /\ next_result' = 1
  /\ pc' = "results"
  /\ UNCHANGED <<latex, csv, ran, algorithm_to_generate, targetdir, requests, image_files,
                 error>>
  /\ UNCHANGED main_frame
  /\ UNCHANGED files

\* A free worker takes the oldest pending task and download_case issues its
\* request.
WorkerStart ==
  /\ pc \in {"results", "shutdown"}
  /\ Cardinality(InState(futures, {"running"})) < pool_size(max_workers)
  /\ InState(futures, {"pending"}) # {}
  /\ LET i == CHOOSE k \in InState(futures, {"pending"}) :
                \A j \in InState(futures, {"pending"}) : k <= j
     IN  /\ futures' = [futures EXCEPT ![i] = "running"]
         /\ requests' = Append(requests, i)
  /\ UNCHANGED <<latex, csv, ran, pc, algorithm_to_generate, targetdir, next_result,
                 image_files, error>>
  /\ UNCHANGED main_frame
  /\ UNCHANGED <<contents, files>>

\* The request of a running task ends: a success status with the content of
\* the response, a non-success status or a timeout.
WorkerFinish ==
  /\ pc \in {"results", "shutdown"}
  /\ \E i \in InState(futures, {"running"}), outcome \in {"ok", "error", "timeout"} :
       /\ futures' = [futures EXCEPT ![i] = outcome]
       /\ IF outcome = "ok"
          THEN \E content \in Contents : contents' = [contents EXCEPT ![i] = content]
          ELSE contents' = contents
  /\ UNCHANGED <<latex, csv, ran, pc, algorithm_to_generate, targetdir, next_result,
                 requests, image_files, error>>
  /\ UNCHANGED main_frame
  /\ UNCHANGED files

\* download_images, lines 31-33: the next result in input order is there and
\* its content is written to the file of the record.
WriteImage ==
  /\ pc = "results"
  /\ next_result \in DOMAIN futures
  /\ futures[next_result] \in {"ok", "error", "timeout"}
  /\ ~download_case_raises(futures[next_result])
  /\ LET result == map_result(algorithm_to_generate, contents, next_result)
         dest == case_fnames(result[1])
     IN  /\ image_files' = Append(image_files, dest)
         /\ files' = write_bytes(files, dest, result[2])
  /\ next_result' = next_result + 1
  /\ UNCHANGED <<latex, csv, ran, pc, algorithm_to_generate, targetdir, futures, requests,
                 error>>
  /\ UNCHANGED main_frame
  /\ UNCHANGED contents

\* download_images, line 31: the next result in input order is an exception;
\* it leaves the loop and the futures not yet started are cancelled.
ResultRaises ==
  /\ pc = "results"
  /\ next_result \in DOMAIN futures
  /\ futures[next_result] \in {"ok", "error", "timeout"}
  /\ download_case_raises(futures[next_result])
  /\ error' = download_case_exception(futures[next_result])
  /\ futures' = cancel_pending(futures)
  /\ pc' = "shutdown"
  /\ UNCHANGED <<latex, csv, ran, algorithm_to_generate, targetdir, next_result, requests,
                 image_files>>
  /\ UNCHANGED main_frame
  /\ UNCHANGED <<contents, files>>

\* download_images returns after the last result.
DownloadImagesReturns ==
  /\ pc = "results"
  /\ next_result = Len(futures) + 1
  /\ pc' = "csv"
  /\ UNCHANGED <<latex, csv, ran, algorithm_to_generate, targetdir, futures, next_result,
                 requests, image_files, error>>
  /\ UNCHANGED main_frame
  /\ UNCHANGED <<contents, files>>

\* The with block is left by the exception: shutdown waits for the running
\* tasks, then main ends with the exception.
ExecutorShutdown ==
  /\ pc = "shutdown"
  /\ InState(futures, {"running"}) = {}
  /\ pc' = "raised"
  /\ UNCHANGED <<latex, csv, ran, algorithm_to_generate, targetdir, futures, next_result,
                 requests, image_files, error>>
  /\ UNCHANGED main_frame
  /\ UNCHANGED <<contents, files>>

\* main, lines 165-168: create_anki_csv, the test of the typeset flag.
MainCreateAnkiCsv ==
  /\ pc = "csv"
  /\ csv' = create_anki_csv(algorithms, deckname)
  /\ ran' = ran \cup {"csv"}
  /\ pc' = IF generate_learning_cards THEN "cards" ELSE "done"
  /\ UNCHANGED <<latex, algorithm_to_generate, targetdir, futures, next_result, requests,
                 image_files, error>>
  /\ UNCHANGED main_frame
  /\ UNCHANGED <<contents, files>>

\* main, line 169: the call of generate_physical_cards; when the arguments
\* bind, create_latex_file lays out the pages.
MainGeneratePhysicalCards ==
  /\ pc = "cards"
  /\ IF binds(generate_physical_cards_parameters, main_call_arguments)
     THEN /\ latex' = generate_latex_pages(algorithms)
          /\ ran' = ran \cup {"latex"}
          /\ pc' = "done"
          /\ error' = error
     ELSE /\ pc' = "raised"
          /\ error' = "TypeError"
          /\ UNCHANGED <<latex, ran>>
  /\ UNCHANGED <<csv, algorithm_to_generate, targetdir, futures, next_result, requests,
                 image_files>>
  /\ UNCHANGED main_frame
  /\ UNCHANGED <<contents, files>>

NextMain ==
  \/ MainFilter
  \/ MainMkdir
  \/ ExecutorMap
  \/ WorkerStart
  \/ WorkerFinish
  \/ WriteImage
  \/ ResultRaises
  \/ DownloadImagesReturns
  \/ ExecutorShutdown
  \/ MainCreateAnkiCsv
  \/ MainGeneratePhysicalCards

SpecMain == InitMain /\ [][NextMain]_vars

---------------------------------------------------------------------------
(* test_integration.py, test_latex_generation.py: algorithm_to_latex. *)

\* The characters matched by [a-zA-Z] and by \d.
Letters ==
  {"a", "b", "c", "d", "e", "f", "g", "h", "i", "j", "k", "l", "m", "n", "o", "p", "q",
   "r", "s", "t", "u", "v", "w", "x", "y", "z", "A", "B", "C", "D", "E", "F", "G", "H",
   "I", "J", "K", "L", "M", "N", "O", "P", "Q", "R", "S", "T", "U", "V", "W", "X", "Y",
   "Z"}

DigitChars == Range(Digits)

\* The length of the longest run of characters of a class that starts at
\* position i of s: what a greedy \d* or '* consumes there.
RECURSIVE run(_, _, _)
run(s, i, class) ==
  IF i > Len(s) \/ s[i] \notin class THEN 0 ELSE 1 + run(s, i + 1, class)

\* A pattern without the optional w (a seeded fault).
optional_w_never(s, i) == 0

\* What w? consumes at position i of s.
optional_w(s, i) == IF i <= Len(s) /\ s[i] = "w" THEN 1 ELSE 0

\* The length of the match of \d*[a-zA-Z]w?\d*'* at position i of s, 0 when
\* there is none.  The letter is required; after fewer digits than the greedy
\* run the next character is a digit, so backtracking finds no other match.
match_at(s, i) ==
  LET prefix == run(s, i, DigitChars)
      letter == i + prefix
  IN  IF letter > Len(s) \/ s[letter] \notin Letters THEN 0
      ELSE LET w == optional_w(s, letter + 1)
               suffix == run(s, letter + 1 + w, DigitChars)
               primes == run(s, letter + 1 + w + suffix, {"'"})
           IN  prefix + 1 + w + suffix + primes

\* re.findall(move_pattern, alg_str) from position i: the non-overlapping
\* matches from left to right; a position without a match is skipped.
RECURSIVE findall(_, _)
findall(s, i) ==
  IF i > Len(s) THEN <<>>
  ELSE LET n == match_at(s, i)
       IN  IF n = 0 THEN findall(s, i + 1)
           ELSE <<SubSeq(s, i, i + n - 1)>> \o findall(s, i + n)

\* re.match(r'^(\d*)([a-zA-Z]w?)(\d*)(.*)$', move): whether it matches, and
\* its four groups.
move_matches(move) ==
  LET prefix == run(move, 1, DigitChars)
  IN  prefix + 1 <= Len(move) /\ move[prefix + 1] \in Letters

move_groups(move) ==
  LET prefix == run(move, 1, DigitChars)
      w == optional_w(move, prefix + 2)
      suffix == run(move, prefix + 2 + w, DigitChars)
  IN  [prefix_num |-> SubSeq(move, 1, prefix),
       base |-> SubSeq(move, prefix + 1, prefix + 1 + w),
       suffix_num |-> SubSeq(move, prefix + 2 + w, prefix + 1 + w + suffix),
       primes |-> SubSeq(move, prefix + 2 + w + suffix, Len(move))]

\* Every move typeset (a seeded fault).
plain_move_never(prefix_num, suffix_num, primes) == FALSE

\* The else branch of "if primes or suffix_num or prefix_num".
plain_move(prefix_num, suffix_num, primes) ==
  ~(primes # <<>> \/ suffix_num # <<>> \/ prefix_num # <<>>)

\* The trailing digits left on the line (a seeded fault).
superscript_inline(suffix_num) == suffix_num

\* if suffix_num: result += f"^{{{suffix_num}}}"
superscript(suffix_num) ==
  IF suffix_num # <<>> THEN <<"^{">> \o suffix_num \o <<"}">> ELSE <<>>

\* The apostrophes copied (a seeded fault).
prime_mark_copied(primes) == primes

\* if primes: one apostrophe gives "'", more give f"^{{{prime_count}\\prime}}"
prime_mark(primes) ==
  IF primes = <<>> THEN <<>>
  ELSE IF Len(primes) = 1 THEN <<"'">>
  ELSE <<"^{", str(Len(primes)), "\\prime}">>

\* The token appended for one move.
latex_token(move) ==
  IF ~move_matches(move) THEN move
  ELSE LET g == move_groups(move)
       IN  IF plain_move(g.prefix_num, g.suffix_num, g.primes) THEN g.base
           ELSE <<"$\\text{">> \o g.prefix_num \o g.base \o <<"}">>
                \o superscript(g.suffix_num) \o prime_mark(g.primes) \o <<"$">>

\* The loop over the moves; an empty move is skipped.
RECURSIVE tokens_of(_)
tokens_of(found) ==
  IF found = <<>> THEN <<>>
  ELSE IF Head(found) = <<>> THEN tokens_of(Tail(found))
  ELSE <<latex_token(Head(found))>> \o tokens_of(Tail(found))

\* The parentheses left in the string (a seeded fault).
alg_str_kept(alg) == alg

\* alg_str: the string without its parentheses.
alg_str(alg) == replace(replace(alg, <<"(">>, <<>>), <<")">>, <<>>)

algorithm_to_latex(alg) == join_pieces(" ", tokens_of(findall(alg_str(alg), 1)))

\* The strings handed to algorithm_to_latex: the strings of at most MaxLen
\* characters of TokChars, and the sequences of the tests.
TokChars == {"R", "w", "2", "'", " ", "(", "+"}

TokExamples ==
  { <<"R", " ", "U", " ", "R", "'", " ", "U", "'">>,
    <<"R", "2", " ", "U", " ", "R", "2">>,
    <<"(", "R", " ", "U", " ", "R", "'", " ", "U", "'", ")">>,
    <<"R", "w", " ", "U", " ", "R", "w", "'">>,
    <<"2", "R", " ", "U", " ", "2", "R", "'">> }

TokStrings == UNION {[1..n -> TokChars] : n \in 0..MaxLen} \cup TokExamples

InitTok ==
  /\ algorithm_set = "all"
  /\ algorithms = <<>>
  /\ deckname = select_deckname("all")
  /\ latex = <<>>
  /\ csv = <<>>
  /\ csv_specials = <<>>
  /\ request = <<>>
  /\ ran = {}
  /\ extended = <<>>
  /\ counter_latex = <<>>
  /\ raw \in TokStrings
  /\ impl = "none"
  /\ vis = <<>>
  /\ vis_twice = <<>>
  /\ str_pc = "alg"
  /\ MainIdle
  /\ TokIdle

\* algorithm_to_latex(raw)
AlgorithmToLatex ==
  /\ str_pc = "alg"
  /\ moves' = findall(alg_str(raw), 1)
  /\ latex_tokens' = tokens_of(moves')
  /\ alg_latex' = algorithm_to_latex(raw)
  /\ str_pc' = "latex"
  /\ UNCHANGED <<raw, impl, vis, vis_twice, escaped>>
  /\ UNCHANGED emitter_vars
  /\ UNCHANGED main_vars

NextTok == AlgorithmToLatex

SpecTok == InitTok /\ [][NextTok]_vars

---------------------------------------------------------------------------
(* escape_latex of test_integration.py.  A text is a sequence of characters;
   the letters of a control word are one piece, as no replacement touches
   them. *)

MaxEscLen == 3

\* replacements, in the insertion order of the dict
replacements ==
  << <<"\\", <<"\\", "textbackslash", "{", "}">> >>,
     <<"&", <<"\\", "&">> >>,
     <<"%", <<"\\", "%">> >>,
     <<"$", <<"\\", "$">> >>,
     <<"#", <<"\\", "#">> >>,
     <<"_", <<"\\", "_">> >>,
     <<"{", <<"\\", "{">> >>,
     <<"}", <<"\\", "}">> >>,
     <<"~", <<"\\", "textasciitilde", "{", "}">> >>,
     <<"^", <<"\\", "textasciicircum", "{", "}">> >> >>

\* The loop of escape_latex from the k-th replacement on: each replacement is
\* applied to the result of the ones before it.
RECURSIVE escape_from(_, _)
escape_from(result, k) ==
  IF k > Len(replacements) THEN result
  ELSE escape_from(replace(result, <<replacements[k][1]>>, replacements[k][2]), k + 1)

escape_latex(text) == escape_from(text, 1)

EscChars == {replacements[k][1] : k \in DOMAIN replacements} \cup {"a"}

EscStrings == UNION {[1..n -> EscChars] : n \in 0..MaxEscLen}

InitEsc ==
  /\ algorithm_set = "all"
  /\ algorithms = <<>>
  /\ deckname = select_deckname("all")
  /\ latex = <<>>
  /\ csv = <<>>
  /\ csv_specials = <<>>
  /\ request = <<>>
  /\ ran = {}
  /\ extended = <<>>
  /\ counter_latex = <<>>
  /\ raw \in EscStrings
  /\ impl = "none"
  /\ vis = <<>>
  /\ vis_twice = <<>>
  /\ str_pc = "text"
  /\ MainIdle
  /\ TokIdle

\* escape_latex(raw)
EscapeLatex ==
  /\ str_pc = "text"
  /\ escaped' = escape_latex(raw)
  /\ str_pc' = "escaped"
  /\ UNCHANGED <<raw, impl, vis, vis_twice, moves, latex_tokens, alg_latex>>
  /\ UNCHANGED emitter_vars
  /\ UNCHANGED main_vars

NextEsc == EscapeLatex

SpecEsc == InitEsc /\ [][NextEsc]_vars

---------------------------------------------------------------------------
(* Reading the outputs. *)

LatexRan == "latex" \in ran

RECURSIVE Flatten(_)
Flatten(rows) == IF rows = <<>> THEN <<>> ELSE Head(rows) \o Flatten(Tail(rows))

NonEmpty(cells) == SelectSeq(cells, LAMBDA cell : cell # <<>>)

\* The tabulars of the markup in order: front and back of page 1, of page 2, ...
Tables == SelectSeq(latex, LAMBDA b : b.block = "tabular")

NumPages == Len(Tables) \div 2

FrontRows(p) == Tables[2 * p - 1].rows

BackRows(p) == Tables[2 * p].rows

Reversed(s) == [i \in 1..Len(s) |-> s[Len(s) + 1 - i]]

\* The arguments of the non-empty cells of a grid, row by row.
CellArgs(rows) == LET cells == NonEmpty(Flatten(rows)) IN [i \in 1..Len(cells) |-> cells[i][2]]

\* The icon file of a record.
IconOf(rec) == rec.name \o ".pdf"

\* The number of records the p-th page of N records has to hold.
OnPage(p, N) == Min(CardsPerPage, N - CardsPerPage * (p - 1))

\* The notation cell of a record: its move sequence, with or without line break.
Notations(rec) == {rec._alg, rec._alg \o LineBreak}

\* The columns of a spreadsheet line: its pieces between the "\t" pieces.
RECURSIVE SplitTab(_)
SplitTab(line) ==
  IF \A i \in DOMAIN line : line[i] # "\t" THEN <<line>>
  ELSE LET i == CHOOSE k \in DOMAIN line :
                  line[k] = "\t" /\ \A j \in 1..(k - 1) : line[j] # "\t"
       IN  <<SubSeq(line, 1, i - 1)>> \o SplitTab(SubSeq(line, i + 1, Len(line)))

\* The parts of a text between the pieces equal to sep.
RECURSIVE SplitOn(_, _)
SplitOn(text, sep) ==
  IF \A i \in DOMAIN text : text[i] # sep THEN <<text>>
  ELSE LET i == CHOOSE k \in DOMAIN text :
                  text[k] = sep /\ \A j \in 1..(k - 1) : text[j] # sep
       IN  <<SubSeq(text, 1, i - 1)>> \o SplitOn(SubSeq(text, i + 1, Len(text)), sep)

\* The query parameters of a request: the parts of the text after the "?",
\* split at "&".
QueryParams(url) == SplitOn(SubSeq(url, 3, Len(url)), "&")

\* The parameters of a request named key, and the value of one parameter.
Named(url, key) ==
  {i \in DOMAIN QueryParams(url) :
     QueryParams(url)[i] # <<>> /\ QueryParams(url)[i][1] = key}

ValueOf(param) == SubSeq(param, 3, Len(param))

\* The value of a query parameter of a request.
ParamValue(url, key) ==
  ValueOf(QueryParams(url)[CHOOSE i \in Named(url, key) : TRUE])

---------------------------------------------------------------------------
(* The layout claims. *)

\* C1: on every page and in every row the back grid is the horizontal mirror of
\* the front grid: the back cell in column c holds the notation of exactly the
\* record whose icon is in front column C-1-c, and is empty iff that cell is.
C1_BackIsMirror ==
  LatexRan =>
    \A p \in 1..NumPages :
      LET front == FrontRows(p)
          back == BackRows(p)
      IN  /\ DOMAIN front = DOMAIN back
          /\ \A r \in DOMAIN back : \A c \in 1..Columns :
               LET f == front[r][Columns + 1 - c]
                   b == back[r][c]
               IN  /\ (b = <<>>) <=> (f = <<>>)
                   /\ b # <<>> =>
                        /\ b[1] = "\\cubealgo"
                        /\ f[1] = "\\cubeimg"
                        /\ \E i \in DOMAIN algorithms : IconOf(algorithms[i]) = f[2]
                        /\ \A i \in DOMAIN algorithms :
                             IconOf(algorithms[i]) = f[2] => b[2] \in Notations(algorithms[i])

\* An eleven-record list laid out: the last row [A, B, -] has the back row [-, B, A].
C1_Witness ==
  /\ LatexRan
  /\ Len(algorithms) = 11
  /\ FrontRows(2)[1] = <<cubeimg(IconOf(algorithms[10])), cubeimg(IconOf(algorithms[11])), <<>> >>
  /\ BackRows(2)[1] = << <<>>, cubealgo(algorithms[11]._alg), cubealgo(algorithms[10]._alg) >>

\* C2: N records are partitioned into ceil(N / 9) consecutive pages of at most 9
\* records, all but the last full; the icons of the pages in order are the input
\* list; each record is on exactly one front grid and its notation on the back
\* grid of the same page; 10 records give a page of 9 and a page of 1.
C2_PagePartition ==
  LatexRan =>
    LET N == Len(algorithms)
        P == NumPages
        icons(p) == CellArgs(FrontRows(p))
        records(p) == SubSeq(algorithms, CardsPerPage * (p - 1) + 1,
                             CardsPerPage * (p - 1) + Len(icons(p)))
    IN  /\ Len(Tables) = 2 * P
        /\ N = 0 => P = 0
        /\ N > 0 => CardsPerPage * (P - 1) < N /\ N <= CardsPerPage * P
        /\ \A p \in 1..P :
             /\ Len(icons(p)) \in 1..CardsPerPage
             /\ p < P => Len(icons(p)) = CardsPerPage
             /\ icons(p) = [k \in 1..Len(icons(p)) |-> IconOf(records(p)[k])]
             /\ Len(CellArgs(BackRows(p))) = Len(icons(p))
             /\ \A k \in 1..Len(icons(p)) :
                  Cardinality({j \in 1..Len(icons(p)) :
                                 CellArgs(BackRows(p))[j] \in Notations(records(p)[k])})
                  = Cardinality({j \in 1..Len(icons(p)) :
                                   records(p)[j]._alg = records(p)[k]._alg})
        /\ \A i \in 1..N :
             Cardinality({p \in 1..P : IconOf(algorithms[i]) \in Range(icons(p))}) = 1
        /\ N = 10 => P = 2 /\ Len(icons(1)) = 9 /\ Len(icons(2)) = 1

\* Ten records laid out on two pages.
C2_Witness ==
  /\ LatexRan
  /\ Len(algorithms) = 10
  /\ NumPages = 2
  /\ CellArgs(FrontRows(2)) = <<IconOf(algorithms[10])>>

\* C3: the front grid is filled in row-major order: the k-th record of the page
\* is in row k div C, column k mod C; every row has C cells and the cells after
\* the last record are empty.
C3_FrontRowMajor ==
  LatexRan =>
    \A p \in 1..NumPages :
      LET front == FrontRows(p)
          first == CardsPerPage * (p - 1)
          count == OnPage(p, Len(algorithms))
      IN  /\ Len(front) * Columns >= count
          /\ \A r \in DOMAIN front :
               /\ Len(front[r]) = Columns
               /\ \A c \in 1..Columns :
                    LET k == (r - 1) * Columns + (c - 1)
                    IN  front[r][c] = IF k < count
                                      THEN <<"\\cubeimg", IconOf(algorithms[first + k + 1])>>
                                      ELSE <<>>

\* Thirteen records: the second row of the second page holds the thirteenth
\* record and two empty cells.
C3_Witness ==
  /\ LatexRan
  /\ Len(algorithms) = 13
  /\ FrontRows(1)[2][3] = cubeimg(IconOf(algorithms[6]))
  /\ FrontRows(2)[2] = <<cubeimg(IconOf(algorithms[13])), <<>>, <<>> >>

\* C4: for P >= 1 pages a \newpage stands between the front and the back grid of
\* every page and between the back grid of a page and the front grid of the
\* next, and none after the last back grid: 2 * P - 1 separators.
C4_SeparatorBetweenAllGrids ==
  (LatexRan /\ NumPages >= 1) =>
    /\ Cardinality({k \in DOMAIN latex : latex[k].block = "newpage"}) = 2 * NumPages - 1
    /\ latex[Len(latex)].block = "tabular"
    /\ \A k \in 1..(Len(latex) - 1) :
         latex[k].block = "tabular" => latex[k + 1].block = "newpage"

DataRows(lines) == SelectSeq(lines, LAMBDA line : Head(line) # "#")

FullPages == {p \in 1..NumPages : Len(CellArgs(FrontRows(p))) = CardsPerPage}

EmittersRanOnPLL == algorithms = PLL /\ ran = {"csv", "latex"}

\* C6 as stated: the 21 PLL records give 21 data rows and 7 front/back page
\* pairs, 6 full pages and a partial page of 3 records in one row.
C6_SevenPagePairs ==
  EmittersRanOnPLL =>
    /\ Len(DataRows(csv)) = 21
    /\ NumPages = 7
    /\ Cardinality(FullPages) = 6
    /\ Len(CellArgs(FrontRows(NumPages))) = 3
    /\ Len(FrontRows(NumPages)) = 1

\* C6 as amended: the 21 PLL records give 21 data rows and 3 front/back page
\* pairs, 2 full pages of 9 and a partial page of 3 records in a single row.
C6_ThreePagePairs ==
  EmittersRanOnPLL =>
    /\ Len(PLL) = 21
    /\ Len(DataRows(csv)) = 21
    /\ NumPages = 3
    /\ FullPages = {1, 2}
    /\ Len(CellArgs(FrontRows(3))) = 3
    /\ Len(CellArgs(BackRows(3))) = 3
    /\ Len(FrontRows(3)) = 1
    /\ Len(BackRows(3)) = 1

\* Both emitters of the package have run on the PLL catalog.
C6_Witness ==
  /\ EmittersRanOnPLL
  /\ Len(csv) > 0
  /\ NumPages > 0

---------------------------------------------------------------------------
(* The spreadsheet and the human-facing text. *)

\* The lines are 3 metadata lines starting with "#" and then one data row per
\* record, in input order, and nothing else.
ThreeHeadersThenRows(lines) ==
  /\ Len(lines) = 3 + Len(algorithms)
  /\ \A i \in 1..3 : Head(lines[i]) = "#"
  /\ \A i \in DOMAIN algorithms :
       LET columns == SplitTab(lines[3 + i])
       IN  /\ Head(lines[3 + i]) # "#"
           /\ Len(columns) = 4
           /\ columns[2] = <<algorithms[i].name>>

\* C7: create_anki_csv writes exactly 3 metadata lines, each starting with "#",
\* then exactly one data row per input record in input order, and nothing else.
C7_ThreeMetadataLines ==
  /\ "csv" \in ran => ThreeHeadersThenRows(csv)
  /\ "csv_specials" \in ran => ThreeHeadersThenRows(csv_specials)

\* The move sequence submitted for a record, from its fields: the setup
\* rotations around the sequence (OLL, PLL), the sequence (General).
SubmittedSequence(rec) ==
  CASE rec.kind \in {"OLL", "PLL"} ->
         rec._setup_rotation_before \o rec._alg \o rec._setup_rotation_after
    [] rec.kind = "General" -> rec._alg

\* C8: setup rotations never show in the human-facing text: human_algorithm is
\* the stored sequence for every record, the spreadsheet row and the notation
\* cells are built from it, and only the request carries the setup rotations.
C8_SetupInvisible ==
  /\ \A i \in DOMAIN algorithms : human_algorithm(algorithms[i]) = algorithms[i]._alg
  /\ "csv" \in ran =>
       \A i \in DOMAIN algorithms : SplitTab(csv[3 + i])[3] = algorithms[i]._alg
  /\ LatexRan =>
       \A p \in 1..NumPages :
         LET back == CellArgs(BackRows(p))
             first == CardsPerPage * (p - 1)
         IN  \A j \in DOMAIN back :
               \E k \in 1..OnPage(p, Len(algorithms)) :
                 back[j] \in Notations(algorithms[first + k])
  /\ request # <<>> =>
       LET case == request[1].case
       IN  case.kind # "Front" =>
             ParamValue(request[1].full_url, "case")
             = human_to_visualiser(SubmittedSequence(case))

\* A request for a PLL record with a setup rotation: the submitted sequence is
\* not the human-facing one.
C8_Witness ==
  /\ request # <<>>
  /\ request[1].case.kind = "PLL"
  /\ request[1].case._setup_rotation_after # <<>>
  /\ ParamValue(request[1].full_url, "case")
     # human_to_visualiser(human_algorithm(request[1].case))

---------------------------------------------------------------------------
(* human_to_visualiser on arbitrary strings. *)

Stripped == {" ", "(", ")"}

Alias2R2 == <<"2", "R", "2">>

Alias2U2 == <<"2", "U", "2">>

\* old occurs in s at position i.
OccursAt(s, i, old) == i + Len(old) - 1 <= Len(s) /\ SubSeq(s, i, i + Len(old) - 1) = old

Contains(s, old) == \E i \in DOMAIN s : OccursAt(s, i, old)

\* The positions of s where an alias move starts.
AliasStarts(s) == {i \in DOMAIN s : OccursAt(s, i, Alias2R2) \/ OccursAt(s, i, Alias2U2)}

\* No two occurrences of the alias moves share a character.
AliasesDisjoint(s) == \A i, j \in AliasStarts(s) : i < j => i + 3 <= j

\* s without the characters of the set.
Without(s, chars) == SelectSeq(s, LAMBDA ch : ch \notin chars)

\* The string the claim describes: every occurrence of 2R2 in s becomes r2R2,
\* every occurrence of 2U2 becomes u2U2, parentheses and spaces are dropped,
\* and the other characters stay in order.
RECURSIVE EveryOccurrenceReplaced(_, _)
EveryOccurrenceReplaced(s, i) ==
  IF i > Len(s) THEN <<>>
  ELSE (IF OccursAt(s, i, Alias2R2) THEN <<"r">> ELSE <<>>)
       \o (IF OccursAt(s, i, Alias2U2) THEN <<"u">> ELSE <<>>)
       \o (IF s[i] \in Stripped THEN <<>> ELSE <<s[i]>>)
       \o EveryOccurrenceReplaced(s, i + 1)

\* s is t with some characters left out.
RECURSIVE IsSubsequence(_, _)
IsSubsequence(s, t) ==
  IF s = <<>> THEN TRUE
  ELSE IF t = <<>> THEN FALSE
  ELSE IF Head(s) = Head(t) THEN IsSubsequence(Tail(s), Tail(t))
  ELSE IsSubsequence(s, Tail(t))

\* C9 as stated: human_to_visualiser applied twice equals applied once.
C9_Idempotent == str_pc = "twice" => vis_twice = vis

\* C9 as amended: the result holds no parenthesis and no space, so a second
\* application strips nothing; the second application changes the result
\* exactly when the result holds 2R2 or 2U2, to which the alias substitution
\* applies again.
C9_IdempotentUnlessAlias ==
  str_pc = "twice" =>
    /\ \A i \in DOMAIN vis : vis[i] \notin Stripped
    /\ Without(vis_twice, {"r", "u"}) = Without(vis, {"r", "u"})
    /\ (vis_twice = vis) <=> (~Contains(vis, Alias2R2) /\ ~Contains(vis, Alias2U2))

\* A string with parentheses and a space, stripped twice with the same result.
C9_Witness ==
  /\ str_pc = "twice"
  /\ raw = <<"(", "R", " ", "U", ")">>
  /\ vis = <<"R", "U">>
  /\ vis_twice = vis

---------------------------------------------------------------------------
(* The request. *)

\* The number of query parameters of a request named key.
CountNamed(url, key) == Cardinality(Named(url, key))

\* C11: the request URL carries fmt, ac, pzl (the record's size) and case (the
\* sanitized visualiser sequence) exactly once each, one parameter per extra
\* parameter of the record, a view parameter iff the view is not None, an arw
\* parameter iff there is an arrow, its value the arrows joined by "," in
\* order; the parameters are joined with "&".
C11_RequestParameters ==
  request # <<>> =>
    LET case == request[1].case
        url == request[1].full_url
        ps == QueryParams(url)
        extra == parameters(case)
        n_view == IF view(case) # "None" THEN 1 ELSE 0
        n_arw == IF Len(arrows(case)) > 0 THEN 1 ELSE 0
    IN  /\ url[2] = "?"
        /\ \A i \in DOMAIN ps : Len(ps[i]) >= 2 /\ ps[i][2] = "="
        /\ Len(ps) = 4 + Len(extra) + n_view + n_arw
        /\ CountNamed(url, "fmt") = 1 /\ ParamValue(url, "fmt") = <<_FMT>>
        /\ CountNamed(url, "ac") = 1 /\ ParamValue(url, "ac") = <<"black">>
        /\ CountNamed(url, "pzl") = 1 /\ ParamValue(url, "pzl") = <<str(case.size)>>
        /\ CountNamed(url, "case") = 1
        /\ ParamValue(url, "case") = human_to_visualiser(visualiser_algorithm(case))
        /\ \A i \in DOMAIN extra :
             /\ CountNamed(url, extra[i][1]) = 1
             /\ ParamValue(url, extra[i][1]) = <<extra[i][2]>>
        /\ CountNamed(url, "view") = n_view
        /\ n_view = 1 => ParamValue(url, "view") = <<view(case)>>
        /\ CountNamed(url, "arw") = n_arw
        /\ n_arw = 1 =>
             SplitOn(ParamValue(url, "arw"), ",")
             = [i \in 1..Len(arrows(case)) |-> <<arrows(case)[i]>>]

\* A request for a record with several arrows and no extra parameter, and the
\* requests for a general record with and without a view.
C11_Witness ==
  /\ request # <<>>
  /\ Len(arrows(request[1].case)) >= 2
  /\ CountNamed(request[1].full_url, "arw") = 1
  /\ CountNamed(request[1].full_url, "view") = 1

C11_WitnessNoView ==
  /\ request # <<>>
  /\ view(request[1].case) = "None"
  /\ Len(parameters(request[1].case)) = 1
  /\ CountNamed(request[1].full_url, "view") = 0
  /\ CountNamed(request[1].full_url, "arw") = 0

---------------------------------------------------------------------------
(* The run of main. *)

\* The futures whose fetch failed.
Failed == InState(futures, {"error", "timeout"})

\* download_images was called and has returned.
DownloadImagesReturned ==
  /\ ~skip_image_generation
  /\ pc \in {"csv", "cards", "done"} \/ (pc = "raised" /\ error = "TypeError")

\* The image file of the i-th record to generate.
ImageFile(i) == [stem |-> algorithm_to_generate[i].name, suffix |-> ".svg"]

\* C12: for any K records and any worker cap, when every fetch succeeds
\* download_images ends having written exactly K files, one per record, at
\* pairwise distinct paths, whatever the cap and the order of completion; the
\* records of all sets together have pairwise distinct paths.
C12_OneFilePerRecord ==
  DownloadImagesReturned =>
    /\ Len(image_files) = Len(algorithm_to_generate)
    /\ \A i \in DOMAIN algorithm_to_generate : image_files[i] = ImageFile(i)
    /\ \A i, j \in DOMAIN image_files : i # j => image_files[i] # image_files[j]
    /\ Failed = {}
    /\ LET all == select_algorithms("all")
       IN  \A i, j \in DOMAIN all : i # j => case_fnames(all[i]) # case_fnames(all[j])

\* Three records fetched by two workers, all written.
C12_Witness ==
  /\ DownloadImagesReturned
  /\ max_workers = <<2>>
  /\ Len(algorithm_to_generate) >= 3
  /\ Len(image_files) = Len(algorithm_to_generate)

\* C13: a failed fetch aborts the batch: main ends with the exception, no
\* request is issued twice, neither the spreadsheet nor the typeset document
\* is written, no image file is written for a failing record or a record
\* after it, and the files written before it stay.
C13_FailFast ==
  /\ \A i, j \in DOMAIN requests : i # j => requests[i] # requests[j]
  /\ \A i \in Failed :
       \A k \in DOMAIN image_files :
         \A j \in i..Len(algorithm_to_generate) : image_files[k] # ImageFile(j)
  /\ Failed # {} =>
       /\ pc \in {"results", "shutdown", "raised"}
       /\ ran = {} /\ csv = <<>> /\ latex = <<>>
       /\ pc = "raised" => error \in {"HTTPError", "Timeout"}
  /\ (pc \in {"shutdown", "raised"} /\ error \in {"HTTPError", "Timeout"}) =>
       /\ next_result \in Failed
       /\ image_files = [k \in 1..(next_result - 1) |-> ImageFile(k)]

\* A run ended by a timeout of the second record after the file of the first
\* was written, while the fetch of the third had succeeded.
C13_Witness ==
  /\ pc = "raised"
  /\ error = "Timeout"
  /\ next_result = 2
  /\ Len(image_files) = 1
  /\ Len(futures) >= 3 /\ futures[3] = "ok"

\* C14: when the glob matches no record of the set, main ends with ValueError
\* before any I/O: no directory, no request, no image, spreadsheet or typeset
\* file.
C14_NoMatchAborts ==
  /\ (pc # "select" /\ pc # "idle" /\ \A i \in DOMAIN algorithms :
                                        ~(algorithm = "*" \/ algorithm = algorithms[i].name))
       => pc = "raised" /\ error = "ValueError"
  /\ error = "ValueError" =>
       /\ ~targetdir
       /\ requests = <<>> /\ futures = <<>> /\ image_files = <<>>
       /\ ran = {} /\ csv = <<>> /\ latex = <<>>

\* A run on several records ended by a glob that matches none.
C14_Witness ==
  /\ pc = "raised"
  /\ error = "ValueError"
  /\ algorithm = NoSuchCase
  /\ Len(algorithms) >= 2

\* C15: with the skip flag main issues no request and writes no image file,
\* and a run that passes the selection still creates the target directory and
\* writes the spreadsheet.
C15_SkipFetching ==
  skip_image_generation =>
    /\ requests = <<>> /\ futures = <<>> /\ image_files = <<>>
    /\ (pc \in {"done", "raised"} /\ error # "ValueError") =>
         /\ targetdir
         /\ "csv" \in ran
         /\ Len(csv) = 3 + Len(algorithms)

\* A finished run with the skip flag.
C15_Witness ==
  /\ skip_image_generation
  /\ pc = "done"
  /\ targetdir
  /\ "csv" \in ran
  /\ requests = <<>>

\* C16: with the typeset flag, after selection and fetching succeeded, main
\* emits the typeset document after the spreadsheet and ends without error.
C16_TypesetEmitted ==
  (/\ generate_learning_cards
   /\ pc \in {"done", "raised"}
   /\ error \notin {"ValueError", "HTTPError", "Timeout"}) =>
    /\ pc = "done"
    /\ error = "none"
    /\ "csv" \in ran
    /\ "latex" \in ran
    /\ latex = generate_latex_pages(algorithms)

---------------------------------------------------------------------------
(* The tokenizer. *)

\* A move has the shape digits, letter, optional w, digits, apostrophes:
\* p leading digits, w letters w, q trailing digits and r apostrophes.
HasShape(m, p, w, q, r) ==
  /\ Len(m) = p + 1 + w + q + r
  /\ \A k \in 1..p : m[k] \in DigitChars
  /\ m[p + 1] \in Letters
  /\ w = 1 => m[p + 2] = "w"
  /\ \A k \in (p + 2 + w)..(p + 1 + w + q) : m[k] \in DigitChars
  /\ \A k \in (p + 2 + w + q)..Len(m) : m[k] = "'"

Shapes(m) ==
  LET leading == {p \in 0..(Len(m) - 1) :
                    m[p + 1] \in Letters /\ \A k \in 1..p : m[k] \in DigitChars}
      fits == {t \in leading \X {0, 1} \X (0..Len(m)) :
                 /\ t[1] + 1 + t[2] + t[3] <= Len(m)
                 /\ HasShape(m, t[1], t[2], t[3], Len(m) - t[1] - 1 - t[2] - t[3])
                 /\ (t[2] = 0 /\ t[1] + 2 <= Len(m)) => m[t[1] + 2] # "w"}
  IN  {<<t[1], t[2], t[3], Len(m) - t[1] - 1 - t[2] - t[3]>> : t \in fits}

IsMove(m) == Shapes(m) # {}

ShapeOf(m) == CHOOSE t \in Shapes(m) : TRUE

\* The letter of a move with its leading digits and its w.
TextOf(m) == SubSeq(m, 1, ShapeOf(m)[1] + 1 + ShapeOf(m)[2])

TrailingDigits(m) ==
  SubSeq(m, ShapeOf(m)[1] + 2 + ShapeOf(m)[2], ShapeOf(m)[1] + 1 + ShapeOf(m)[2] + ShapeOf(m)[3])

\* The words of a string: its parts between the spaces, parentheses dropped.
Words(s) == SelectSeq(SplitOn(Without(s, {"(", ")"}), " "), LAMBDA part : part # <<>>)

\* A string of moves separated by spaces.
WellFormed(s) == \A i \in DOMAIN Words(s) : IsMove(Words(s)[i])

RURprimeUprime == <<"R", " ", "U", " ", "R", "'", " ", "U", "'">>

R2UR2 == <<"R", "2", " ", "U", " ", "R", "2">>

\* C17: the tokenizer emits one token per move, in order, separated by single
\* spaces; a move without digits and apostrophes becomes the bare letter, a
\* move with one apostrophe and no digits the fragment $\text{X}'$; the moves
\* of a string of space-separated moves are its words; "R U R' U'" gives two
\* bare letters followed by two prime fragments.
C17_OneTokenPerMove ==
  str_pc = "latex" =>
    /\ Len(latex_tokens) = Len(moves)
    /\ \A i \in DOMAIN moves : IsMove(moves[i])
    /\ IF latex_tokens = <<>> THEN alg_latex = <<>>
       ELSE SplitOn(alg_latex, " ") = latex_tokens
    /\ WellFormed(raw) => moves = Words(raw)
    /\ \A i \in DOMAIN moves :
         LET m == moves[i]
             t == ShapeOf(m)
         IN  /\ (t[1] = 0 /\ t[3] = 0 /\ t[4] = 0) => latex_tokens[i] = m
             /\ (t[1] = 0 /\ t[3] = 0 /\ t[4] = 1) =>
                  latex_tokens[i] = <<"$\\text{">> \o TextOf(m) \o <<"}", "'", "$">>
    /\ raw = RURprimeUprime =>
         alg_latex = <<"R", " ", "U", " ", "$\\text{", "R", "}", "'", "$", " ",
                       "$\\text{", "U", "}", "'", "$">>

\* "R U R' U'" tokenized.
C17_Witness ==
  /\ str_pc = "latex"
  /\ raw = RURprimeUprime
  /\ Len(latex_tokens) = 4
  /\ latex_tokens[1] = <<"R">>
  /\ latex_tokens[3] = <<"$\\text{", "R", "}", "'", "$">>

\* C18: a move with trailing digits d becomes a fragment with d as
\* superscript, $\text{X}^{d}..., equal moves give identical fragments, and
\* "R2 U R2" gives two identical superscript-2 fragments around a bare U.
C18_SuperscriptDigits ==
  str_pc = "latex" =>
    /\ \A i \in DOMAIN moves :
         LET m == moves[i]
             head == <<"$\\text{">> \o TextOf(m) \o <<"}", "^{">> \o TrailingDigits(m) \o <<"}">>
         IN  ShapeOf(m)[3] > 0 =>
               /\ Len(latex_tokens[i]) > Len(head)
               /\ SubSeq(latex_tokens[i], 1, Len(head)) = head
               /\ latex_tokens[i][Len(latex_tokens[i])] = "$"
    /\ \A i, j \in DOMAIN moves : moves[i] = moves[j] => latex_tokens[i] = latex_tokens[j]
    /\ raw = R2UR2 =>
         alg_latex = <<"$\\text{", "R", "}", "^{", "2", "}", "$", " ", "U", " ",
                       "$\\text{", "R", "}", "^{", "2", "}", "$">>

\* "R2 U R2" tokenized.
C18_Witness ==
  /\ str_pc = "latex"
  /\ raw = R2UR2
  /\ Len(latex_tokens) = 3
  /\ latex_tokens[1] = latex_tokens[3]
  /\ latex_tokens[1] = <<"$\\text{", "R", "}", "^{", "2", "}", "$">>

\* The characters of a string that belong to no move and are neither spaces
\* nor parentheses.
Foreign(s) == Without(s, Letters \cup DigitChars \cup {"'", " ", "(", ")"})

\* C19: what matches no move is passed through verbatim; in particular the
\* characters that can belong to no move appear in the output, in order.
C19_MalformedVerbatim ==
  str_pc = "latex" => IsSubsequence(Foreign(raw), alg_latex)

\* The rendering of r apostrophes.
PrimeOf(r) ==
  IF r = 0 THEN <<>> ELSE IF r = 1 THEN <<"'">> ELSE <<"^{", str(r), "\\prime}">>

\* C20 as stated: a move with digits or apostrophes becomes one fragment in
\* which the digits of the move are superscript: none is left in the text.
C20_DigitsSuperscript ==
  str_pc = "latex" =>
    \A i \in DOMAIN moves :
      LET t == ShapeOf(moves[i])
      IN  t[1] + t[3] + t[4] > 0 =>
            /\ latex_tokens[i][1] = "$\\text{"
            /\ latex_tokens[i][2] \notin DigitChars

\* C20: a move with digits or apostrophes becomes one fragment: the letter
\* with its leading digits in the text, the trailing digits as superscript,
\* one apostrophe as a prime mark and n >= 2 apostrophes as ^{n\prime}.
C20_TrailingDigitsSuperscript ==
  str_pc = "latex" =>
    \A i \in DOMAIN moves :
      LET m == moves[i]
          t == ShapeOf(m)
      IN  t[1] + t[3] + t[4] > 0 =>
            latex_tokens[i]
            = <<"$\\text{">> \o TextOf(m) \o <<"}">>
              \o (IF t[3] > 0 THEN <<"^{">> \o TrailingDigits(m) \o <<"}">> ELSE <<>>)
              \o PrimeOf(t[4]) \o <<"$">>

\* A move with a leading digit, a trailing digit and two apostrophes.
C20_Witness ==
  /\ str_pc = "latex"
  /\ raw = <<"2", "R", "2", "'", "'">>
  /\ latex_tokens = << <<"$\\text{", "2", "R", "}", "^{", "2", "}", "^{", "2", "\\prime}", "$">> >>

ParenRURprimeUprime == <<"(", "R", " ", "U", " ", "R", "'", " ", "U", "'", ")">>

\* C21: grouping parentheses are ignored: the output holds no parenthesis and
\* is the output for the string with all parentheses deleted.
C21_ParenthesesIgnored ==
  str_pc = "latex" =>
    /\ \A k \in DOMAIN alg_latex : alg_latex[k] \notin {"(", ")"}
    /\ alg_latex = algorithm_to_latex(Without(raw, {"(", ")"}))
    /\ raw = ParenRURprimeUprime => alg_latex = algorithm_to_latex(RURprimeUprime)

\* A string whose parenthesis separates a move from its digit: without the
\* parenthesis the two are one move.
C21_Witness ==
  /\ str_pc = "latex"
  /\ raw = <<"R", "(", "2">>
  /\ latex_tokens = << <<"$\\text{", "R", "}", "^{", "2", "}", "$">> >>

RwURwprime == <<"R", "w", " ", "U", " ", "R", "w", "'">>

TwoRUTwoRprime == <<"2", "R", " ", "U", " ", "2", "R", "'">>

\* C22: a trailing w and leading digits belong to the base of the move: a
\* move with a w or leading digits, no trailing digits and one apostrophe is
\* the single fragment $\text{<digits><letter><w>}'$; "Rw'" gives $\text{Rw}'$
\* and "2R'" gives $\text{2R}'$, one token each.
C22_WideAndPrefixedMoves ==
  str_pc = "latex" =>
    /\ \A i \in DOMAIN moves :
         LET m == moves[i]
             t == ShapeOf(m)
         IN  ((t[1] > 0 \/ t[2] = 1) /\ t[3] = 0 /\ t[4] = 1) =>
               latex_tokens[i] = <<"$\\text{">> \o SubSeq(m, 1, Len(m) - 1) \o <<"}", "'", "$">>
    /\ raw = <<"R", "w", "'">> =>
         latex_tokens = << <<"$\\text{", "R", "w", "}", "'", "$">> >>
    /\ raw = <<"2", "R", "'">> =>
         latex_tokens = << <<"$\\text{", "2", "R", "}", "'", "$">> >>
    /\ raw = RwURwprime =>
         latex_tokens = << <<"R", "w">>, <<"U">>, <<"$\\text{", "R", "w", "}", "'", "$">> >>
    /\ raw = TwoRUTwoRprime =>
         latex_tokens = << <<"$\\text{", "2", "R", "}">> \o <<"$">>, <<"U">>,
                           <<"$\\text{", "2", "R", "}", "'", "$">> >>

\* A wide move with a layer prefix and an apostrophe, one token.
C22_Witness ==
  /\ str_pc = "latex"
  /\ raw = <<"2", "R", "w", "'">>
  /\ moves = <<raw>>
  /\ latex_tokens = << <<"$\\text{", "2", "R", "w", "}", "'", "$">> >>

\* The entry of the replacement table for a character, the character itself
\* if it has none.
TableEntry(ch) ==
  IF \E k \in DOMAIN replacements : replacements[k][1] = ch
  THEN replacements[CHOOSE k \in DOMAIN replacements : replacements[k][1] = ch][2]
  ELSE <<ch>>

\* C23: escape_latex maps each of the ten special characters to its entry of
\* the replacement table, leaves other characters unchanged, and maps a string
\* to the concatenation of the results of its characters.
C23_PerCharacterTable ==
  str_pc = "escaped" =>
    escaped = Flatten([k \in DOMAIN raw |-> TableEntry(raw[k])])

\* No two positions of a list hold the same value.
Injective(seq) == Cardinality(Range(seq)) = Len(seq)

NamesOf(algs) == [i \in DOMAIN algs |-> algs[i].name]

FileNamesOf(algs) == [i \in DOMAIN algs |-> path_name(case_fnames(algs[i]))]

\* C24: when main builds case_fnames, the record names of the selected set
\* (each catalog, and their concatenation for "all") are pairwise distinct, and
\* so are the image file names "<name>.svg" of its records.
C24_NamesUnique ==
  pc = "mkdir" =>
    /\ Injective(NamesOf(select_algorithms(algorithm_set)))
    /\ Injective(FileNamesOf(select_algorithms(algorithm_set)))
    /\ \A i \in DOMAIN algorithms :
         path_name(case_fnames(algorithms[i])) = algorithms[i].name \o ".svg"

\* main has selected the concatenation of the four catalogs and is about to
\* build case_fnames.
C24_Witness ==
  /\ pc = "mkdir"
  /\ algorithm_set = "all"
  /\ Len(select_algorithms(algorithm_set)) = Len(PLL) + Len(OLL) + Len(TWO_LOOK_OLL) + Len(BIG_CUBE)
  /\ Len(TWO_LOOK_OLL) > 0

\* What a step may do to the records: the list handed to the emitters keeps
\* its records, their fields and their order, and a call of extend_anki_tags
\* returns a record with the old tags followed by the added ones and every
\* other field equal, the record it was called on staying as it was.
RecordsReadOnly ==
  /\ algorithms' = algorithms
  /\ algorithm_set' = algorithm_set
  /\ extended' # extended =>
       LET call == extended'[1]
       IN  /\ call.result.anki_tags = call.self.anki_tags \o call.tags
           /\ [call.result EXCEPT !.anki_tags = call.self.anki_tags] = call.self
           /\ algorithms'[call.index] = call.self
           /\ call.self = select_algorithms(algorithm_set)[call.index]

\* C25: no operation of the pipeline changes a record or a catalog list, and
\* extend_anki_tags returns a new record (old tags, then the added tags, other
\* fields equal) and leaves the original unchanged.
C25_ReadOnly == [][RecordsReadOnly]_vars

\* extend_anki_tags(["a", "b"]) was called on a record that had three tags.
C25_Witness ==
  /\ extended # <<>>
  /\ extended[1].tags = <<"a", "b">>
  /\ extended[1].self.anki_tags = <<"3x3x3", "OLL", "2-Look-OLL">>
  /\ extended[1].result.anki_tags = <<"3x3x3", "OLL", "2-Look-OLL", "a", "b">>
  /\ algorithms[extended[1].index] = extended[1].self

\* The file written for the k-th record to generate, with the content fetched
\* for that record.
FetchedFile(k) == [path |-> ImageFile(k), bytes |-> contents[k]]

\* C26: whatever the interleaving and the order of completion of the workers,
\* the files are written in input order, each only after its own fetch has
\* succeeded, and each holds the bytes fetched for its own record; once
\* download_images has returned, every record has its file.
C26_OwnContent ==
  /\ image_files = [k \in 1..Len(image_files) |-> ImageFile(k)]
  /\ pc \in {"results", "shutdown"} => Len(image_files) = next_result - 1
  /\ \A k \in DOMAIN image_files :
       /\ futures[k] = "ok"
       /\ contents[k] \in Contents
       /\ FetchedFile(k) \in files
  /\ files = {FetchedFile(k) : k \in DOMAIN image_files}
  /\ DownloadImagesReturned =>
       /\ Len(image_files) = Len(algorithm_to_generate)
       /\ Cardinality(files) = Len(algorithm_to_generate)

\* Three records fetched by two workers with contents that differ between
\* neighbours; download_images has returned and each file holds the content of
\* its own record.
C26_Witness ==
  /\ DownloadImagesReturned
  /\ max_workers = <<2>>
  /\ Len(algorithm_to_generate) = 3
  /\ contents = <<"svg a", "svg b", "svg a">>
  /\ \A k \in 1..3 : FetchedFile(k) \in files
  /\ requests = <<1, 2, 3>>

\* A run of main that got past the selection and the fetching has ended.
RunEnded == pc \in {"done", "raised"} /\ error \notin {"ValueError", "HTTPError", "Timeout"}

\* The records of the selected list whose name the glob matches.
Matching == {r \in Range(algorithms) : algorithm = "*" \/ algorithm = r.name}

\* Requests were issued and image files written for exactly the matching
\* records, and the spreadsheet has a row for every record of the list.
FilterRestrictsOnlyFetching ==
  /\ ~skip_image_generation =>
       /\ {algorithm_to_generate[i] : i \in Range(requests)} = Matching
       /\ Len(requests) = Cardinality(Matching)
       /\ {f.path : f \in files} = {case_fnames(r) : r \in Matching}
  /\ ThreeHeadersThenRows(csv)

\* The icons of the typeset document, page by page.
TypesetIcons == Flatten([p \in 1..NumPages |-> CellArgs(FrontRows(p))])

\* C27: for a filter that matches at least one record, main fetches images for
\* exactly the matching records, while the spreadsheet and, when requested,
\* the typeset document hold one entry for every record of the selected list.
C27_FilterOnlyFetches ==
  RunEnded =>
    /\ FilterRestrictsOnlyFetching
    /\ generate_learning_cards =>
         /\ LatexRan
         /\ TypesetIcons = [i \in DOMAIN algorithms |-> IconOf(algorithms[i])]

\* A finished run whose filter matched one record of three.
FilteredRunEnded ==
  /\ RunEnded
  /\ ~skip_image_generation
  /\ Len(algorithms) = 3
  /\ Len(requests) = 1
  /\ Len(csv) = 6

\* The part on fetching and on the spreadsheet holds in every ended run.
FilterHolds == RunEnded => FilterRestrictsOnlyFetching

\* The inverse of a rotation in move notation: a rotation without an
\* apostrophe gets one, a rotation with an apostrophe loses it, and nothing
\* inverts to nothing.
Inverse(rotation) ==
  IF rotation = <<>> THEN <<>>
  ELSE IF rotation[Len(rotation)] = "'" THEN SubSeq(rotation, 1, Len(rotation) - 1)
       ELSE rotation \o <<"'">>

\* The y rotation assigned to a front colour.
AssignedRotation(colour) ==
  CASE colour = "RED" -> <<"y">>
    [] colour = "ORANGE" -> <<"y", "'">>
    [] colour = "GREEN" -> <<"y", "2">>
    [] colour = "BLUE" -> <<>>

\* The sequence of a front-face record as the claim describes it.
FrontSequence(case) ==
  <<"x", "'", " ">> \o case._alg \o <<" ">> \o Inverse(AssignedRotation(case._front_colour))

\* C28: for a front-face record visualiser_algorithm() is "x'", the stored
\* sequence and a closing rotation, separated by spaces; the closing rotation
\* is the inverse of the y rotation of the front colour (RED y, ORANGE y',
\* GREEN y2) and empty for BLUE; the request carries that sequence.
C28_ClosingRotationInverse ==
  (request # <<>> /\ request[1].case.kind = "Front") =>
    /\ visualiser_algorithm(request[1].case) = FrontSequence(request[1].case)
    /\ ParamValue(request[1].full_url, "case")
         = human_to_visualiser(FrontSequence(request[1].case))

\* For the colours other than ORANGE the sequence is as described.
FrontSequenceButOrange ==
  (request # <<>> /\ request[1].case.kind = "Front"
     /\ request[1].case._front_colour # "ORANGE") =>
    /\ visualiser_algorithm(request[1].case) = FrontSequence(request[1].case)
    /\ ParamValue(request[1].full_url, "case")
         = human_to_visualiser(FrontSequence(request[1].case))

\* A request for an ORANGE front-face record: the sequence ends in y''.
OrangeFrontRequested ==
  /\ request # <<>>
  /\ request[1].case.kind = "Front"
  /\ request[1].case._front_colour = "ORANGE"
  /\ LET alg == visualiser_algorithm(request[1].case)
     IN  SubSeq(alg, Len(alg) - 3, Len(alg)) = <<" ", "y", "'", "'">>

\* The positions of the OLL records tagged 2-Look-OLL.
TaggedPositions == {k \in DOMAIN OLL : \E t \in DOMAIN OLL[k].anki_tags : OLL[k].anki_tags[t] = "2-Look-OLL"}

\* The position in OLL of the i-th tagged record.
TaggedPosition(i) ==
  CHOOSE k \in TaggedPositions : Cardinality({j \in TaggedPositions : j <= k}) = i

TwoLookNames ==
  <<"2LOLL 1", "2LOLL 2", "2LOLL 3", "2LOLL 4", "2LOLL 5", "2LOLL 6", "2LOLL 7">>

OCLLNames ==
  <<"OCLL1 - 21", "OCLL2 - 22", "OCLL3 - 23", "OCLL4 - 24", "OCLL5 - 25", "OCLL6 - 26",
    "OCLL7 - 27">>

\* C29: TWO_LOOK_OLL is the subsequence of the OLL records tagged 2-Look-OLL, in
\* OLL order; its i-th record is named "2LOLL i" and has the size, move
\* sequence, setup rotations and tags of the i-th tagged OLL record; the OLL
\* records keep their own names.
C29_TwoLookDerivation ==
  algorithm_set = "2-look-oll" =>
    /\ algorithms = SubSeq(TWO_LOOK_OLL, 1, Len(algorithms))
    /\ Len(TWO_LOOK_OLL) = Cardinality(TaggedPositions)
    /\ Len(TWO_LOOK_OLL) = Len(TwoLookNames)
    /\ \A i \in DOMAIN TWO_LOOK_OLL :
         LET derived == TWO_LOOK_OLL[i]
             origin == OLL[TaggedPosition(i)]
         IN  /\ derived.name = TwoLookNames[i]
             /\ origin.name = OCLLNames[i]
             /\ derived.kind = origin.kind
             /\ derived.size = origin.size
             /\ derived._alg = origin._alg
             /\ derived._setup_rotation_before = origin._setup_rotation_before
             /\ derived._setup_rotation_after = origin._setup_rotation_after
             /\ derived.anki_tags = origin.anki_tags
    /\ \A k \in DOMAIN OLL : \A i \in DOMAIN TwoLookNames : OLL[k].name # TwoLookNames[i]
    /\ select_algorithms("oll") = OLL

\* The spreadsheet of the whole 2-look set is written: seven rows, the last
\* for "2LOLL 7".
C29_Witness ==
  /\ algorithm_set = "2-look-oll"
  /\ Len(algorithms) = 7
  /\ algorithms[7].name = "2LOLL 7"
  /\ algorithms[7]._alg = OLL[TaggedPosition(7)]._alg
  /\ "csv" \in ran
  /\ SplitTab(csv[10])[2] = <<"2LOLL 7">>

\* Both layout generators have run on the cards of the list.
BothLayoutsRan == LatexRan /\ "numbered" \in ran

\* The blocks that start a page of the counter-based markup, and its tabulars.
CounterPageStarts ==
  SelectSeq(counter_latex, LAMBDA b : b.block \in {"cubepage", "setcounter"})

CounterTables == SelectSeq(counter_latex, LAMBDA b : b.block = "tabular")

=============================================================================
